---- MODULE Spec2Model ----
(***************************************************************************)
(* Model of the SDS processing task of render-redis-backend:              *)
(* tasks.py (text extraction, field extraction, numeric cleaning, merge   *)
(* by CAS Number, duplicate filtering, the process_sds_files task) and    *)
(* the part of app.py that starts the task.                               *)
(*                                                                         *)
(* Python strings are TLA+ strings; TLC evaluates Len, \o, Head, Tail and  *)
(* SubSeq on them, so str.strip, str.lower and the regular expressions of  *)
(* clean_numeric_value are computed character by character.               *)
(***************************************************************************)
EXTENDS Integers, Sequences, FiniteSets, TLC

(***************************************************************************)
(* Bounds of the model.                                                    *)
(***************************************************************************)
MaxDocs == 2
MaxExisting == 2

(***************************************************************************)
(* Characters and the str methods used by the code.                        *)
(***************************************************************************)
Char(s, k) == SubSeq(s, k, k)

Digits == {"0", "1", "2", "3", "4", "5", "6", "7", "8", "9"}

Whitespace == {" ", "\t", "\n", "\r"}

UpperAlphabet == "ABCDEFGHIJKLMNOPQRSTUVWXYZ"

LowerAlphabet == "abcdefghijklmnopqrstuvwxyz"

IsDigit(c) == c \in Digits

UpperChars == {Char(UpperAlphabet, k) : k \in 1..Len(UpperAlphabet)}

LowerMap ==
    [c \in UpperChars |->
        Char(LowerAlphabet, CHOOSE k \in 1..Len(UpperAlphabet) : Char(UpperAlphabet, k) = c)]

LowerChar(c) == IF c \in UpperChars THEN LowerMap[c] ELSE c

RECURSIVE lower(_)
lower(s) == IF s = "" THEN "" ELSE LowerChar(Head(s)) \o lower(Tail(s))

RECURSIVE lstrip(_)
lstrip(s) == IF s # "" /\ Head(s) \in Whitespace THEN lstrip(Tail(s)) ELSE s

RECURSIVE rstrip(_)
rstrip(s) ==
    IF s # "" /\ Char(s, Len(s)) \in Whitespace
    THEN rstrip(SubSeq(s, 1, Len(s) - 1))
    ELSE s

strip(s) == rstrip(lstrip(s))

HasDigit(s) == \E k \in 1..Len(s) : IsDigit(Char(s, k))

(* Length of the longest prefix of s made of characters of the set cs. *)
RECURSIVE RunLen(_, _)
RunLen(s, cs) == IF s # "" /\ Head(s) \in cs THEN 1 + RunLen(Tail(s), cs) ELSE 0

DropRun(s, cs) == SubSeq(s, RunLen(s, cs) + 1, Len(s))

(* Length of the longest suffix of s made of digits. *)
RECURSIVE TrailingDigits(_)
TrailingDigits(s) ==
    IF s # "" /\ IsDigit(Char(s, Len(s)))
    THEN 1 + TrailingDigits(SubSeq(s, 1, Len(s) - 1))
    ELSE 0

(***************************************************************************)
(* clean_numeric_value and its regular expressions.                        *)
(***************************************************************************)
NoDataTokens == {"nda", "n/a", "not available"}

\* re.search for a run of digits and commas, an optional "." or ",", then
\* digits: the leftmost match, each part greedy. <<>> when there is no
\* match, <<group 1>> otherwise.
RECURSIVE NumberSearch(_)
NumberSearch(s) ==
    IF s = "" THEN <<>>
    ELSE IF Head(s) \in Digits \cup {","}
    THEN LET a == RunLen(s, Digits \cup {","})
             rest == SubSeq(s, a + 1, Len(s))
             sep == IF rest # "" /\ Head(rest) \in {".", ","} THEN 1 ELSE 0
             rest2 == SubSeq(rest, sep + 1, Len(rest))
             b == RunLen(rest2, Digits)
         IN  <<SubSeq(s, 1, a + sep + b)>>
    ELSE NumberSearch(Tail(s))

\* CommaDecimalToDot, were the separator removed instead of replaced.
CommaDecimalToDot_dropComma(number) ==
    LET n == Len(number)
        k == TrailingDigits(number)
    IN  IF k >= 1 /\ n - k >= 2 /\ Char(number, n - k) = ","
           /\ IsDigit(Char(number, n - k - 1))
        THEN SubSeq(number, 1, n - k - 1) \o SubSeq(number, n - k + 1, n)
        ELSE number

\* re.sub of "digits , digits" at the end of the string by "digits . digits".
CommaDecimalToDot(number) ==
    LET n == Len(number)
        k == TrailingDigits(number)
    IN  IF k >= 1 /\ n - k >= 2 /\ Char(number, n - k) = ","
           /\ IsDigit(Char(number, n - k - 1))
        THEN SubSeq(number, 1, n - k - 1) \o "." \o SubSeq(number, n - k + 1, n)
        ELSE number

clean_numeric_value(value_str) ==
    IF value_str = "" \/ lower(value_str) \in NoDataTokens
    THEN "NDA"
    ELSE LET stripped == DropRun(strip(value_str), {":", "-"} \cup Whitespace)
             number_match == NumberSearch(stripped)
         IN  IF number_match # <<>>
             THEN CommaDecimalToDot(number_match[1])
             ELSE "NDA"

(***************************************************************************)
(* float(value) and the "one decimal" formatting of the vapour pressure.   *)
(***************************************************************************)
CountChar(s, c) == Cardinality({k \in 1..Len(s) : Char(s, k) = c})

\* float() accepts the strings clean_numeric_value can return only when they
\* are digits with at most one "." and no ","; otherwise it raises ValueError.
FloatParses(value) ==
    /\ HasDigit(value)
    /\ \A k \in 1..Len(value) : Char(value, k) \in Digits \cup {"."}
    /\ CountChar(value, ".") <= 1

DigitValue(c) == CHOOSE d \in 0..9 : ToString(d) = c

RECURSIVE DigitsToInt(_)
DigitsToInt(s) ==
    IF s = "" THEN 0
    ELSE 10 * DigitsToInt(SubSeq(s, 1, Len(s) - 1)) + DigitValue(Char(s, Len(s)))

RECURSIVE RemoveChar(_, _)
RemoveChar(s, c) ==
    IF s = "" THEN ""
    ELSE (IF Head(s) = c THEN "" ELSE Head(s)) \o RemoveChar(Tail(s), c)

\* float(value) as the exact fraction Mantissa(value) / 10^Decimals(value).
Mantissa(value) == DigitsToInt(RemoveChar(value, "."))

Decimals(value) ==
    IF CountChar(value, ".") = 0 THEN 0
    ELSE Len(value) - (CHOOSE k \in 1..Len(value) : Char(value, k) = ".")

RECURSIVE Pow10(_)
Pow10(n) == IF n = 0 THEN 1 ELSE 10 * Pow10(n - 1)

\* num / den rounded to the nearest integer, ties to even.
RoundDiv(num, den) ==
    LET q == num \div den
        r == num % den
    IN  IF 2 * r > den \/ (2 * r = den /\ q % 2 = 1) THEN q + 1 ELSE q

\* f"{x:.1f}" of x = tenths / 10.
FormatOneDecimal(tenths) == ToString(tenths \div 10) \o "." \o ToString(tenths % 10)

AtmToMmHg == 760

\* 0.00750062 = PaToMmHgNum / 10^8.
PaToMmHgNum == 750062

\* Integers of the model checker are 32 bits wide: a product that does not fit
\* is kept as <<hi, lo>>, standing for hi * Base + lo with lo < Base.
Base == 10000000

BigMul(m, c) ==
    LET a == m * (c \div 1000)
        lo0 == (a % 10000) * 1000 + m * (c % 1000)
    IN  <<a \div 10000 + lo0 \div Base, lo0 % Base>>

\* (hi * Base + lo) / (Base * 10^d) rounded to the nearest integer, ties to even.
RoundBig(big, d) ==
    LET q == big[1] \div Pow10(d)
        r == big[1] % Pow10(d)
        above == IF d = 0 THEN 2 * big[2] > Base
                 ELSE r > 5 * Pow10(d - 1) \/ (r = 5 * Pow10(d - 1) /\ big[2] > 0)
        tie == IF d = 0 THEN 2 * big[2] = Base
               ELSE r = 5 * Pow10(d - 1) /\ big[2] = 0
    IN  IF above \/ (tie /\ q % 2 = 1) THEN q + 1 ELSE q

\* f"{float(value) * 760:.1f}"
ConvertAtm(value) ==
    FormatOneDecimal(RoundDiv(Mantissa(value) * AtmToMmHg * 10, Pow10(Decimals(value))))

\* f"{float(value) * 0.00750062:.1f}"
ConvertPa(value) ==
    FormatOneDecimal(RoundBig(BigMul(Mantissa(value), PaToMmHgNum), Decimals(value)))

(***************************************************************************)
(* The schema.  The degree sign of three column names is written "deg".    *)
(***************************************************************************)
COLUMNS ==
    << "Description",
       "CAS Number",
       "Physical state (solid/liquid/gas)",
       "Composition",
       "Static Hazard",
       "Vapour Pressure (in mmHg)",
       "at temp (in degC)",
       "Flash Point (degC)",
       "Flammable Limits by Volume (LEL, UEL)",
       "Melting Point (degC)",
       "Boiling Point (degC)",
       "Density (g/cc)",
       "Relative Vapour Density (Air = 1)",
       "Ignition Temperature (degC)",
       "Threshold Limit Value (ppm)",
       "Immediate Danger to Life in Humans",
       "Toxicological Info LD50 (mg/kg)",
       "Source of Information" >>

Range(seq) == {seq[k] : k \in 1..Len(seq)}

(***************************************************************************)
(* The texts of the documents, and what the re calls of parse_sds_data     *)
(* find in each of them.  In the record Matches(text) a field is what one  *)
(* re call finds: <<>> for no match, <<m>> for the first match m (a tuple  *)
(* of groups is <<g1, g2>> for the flammable-limit pairs and str(tuple)    *)
(* for find_between), with one entry per pattern where the code walks a    *)
(* list of patterns; a boolean tells whether any pattern of a list is      *)
(* found.                                                                  *)
(***************************************************************************)
BlankText == ""

WhitespaceText == " \n"

EthanolText == "CAS No.: 64-17-5\nTLV: n/a"

EthanolTlvText == "CAS No.: 64-17-5\nTLV: 5 ppm\nDensity: 0.79 g/cm3"

AcetoneText == "CAS No.: 67-64-1\nVapour pressure: 1,5 atm"

UnknownText == "Product name: Mix\nTLV: 5 ppm"

BadPressureText == "Vapour pressure: 1,2,3 atm"

\* Texts for the flammable limits, the static hazard, the vapour pressure and
\* the CAS Number.
LelUelText == "LEL: 2.1%\nUEL: 12.8%"

LowerUpperExplosiveText == "Lower explosive limit: 3% Upper explosive limit: 19%"

LflUflText == "LFL: 1% UFL: 7%"

FlammableLimitsRangeText == "Flammable limits: 2.1% - 12.8%"

ExplosiveLimitsRangeText == "Explosive limits: 2 - 12%"

FlammabilityLimitsRangeText == "Flammability limits: 2.1% - 12.8%"

ParenthesizedRangeText == "Limits in air (2.1 - 12.8%)"

ExplosiveRangeText == "Explosive range: 2 - 12%"

LelOnlyText == "LEL: 2.1%"

UpperFlammableOnlyText == "Upper flammable limit: 12%"

LowerUpperFlammableText == "Lower flammable limit: 1%\nUpper flammable limit: 6%"

NonCombustibleText == "Non-combustible"

LelNotFlammableText == "LEL: 2.1%. Not flammable in water"

StaticDischargeText == "Avoid static discharge"

NoStaticHazardText == "No static hazard. Avoid static discharge"

HandlingText == "Handling and storage: keep cool"

HandlingStaticText == "Handling and storage: avoid electrostatic charge"

MmHgText == "Vapor pressure: 100 mmHg"

PaText == "Vapour pressure: 2000 Pa"

GenericMmHgText == "Pressure: 100 mmHg"

GenericPaText == "Pressure: 2000 Pa"

GenericAtmText == "Pressure: 2 atm"

BracketCasText == "CAS-No. [7732-18-5]"

BareCasText == "Contains 67-64-1 only"

LongCasText == "CAS: 12345678-12-3"

TrailingDigitCasText == "CAS number: 64-17-55"

\* What the re calls find in a text none of the patterns matches.
NoMatches ==
    [cas |-> <<<<>>, <<>>, <<>>, <<>>, <<>>, <<>>, <<>>>>,
     physical_state |-> <<>>,
     state |-> <<>>,
     no_static |-> FALSE,
     static |-> FALSE,
     handling |-> FALSE,
     vp |-> <<<<>>, <<>>, <<>>, <<>>>>,
     temp |-> <<>>,
     flash_point |-> <<>>,
     melting_point |-> <<>>,
     boiling_point |-> <<>>,
     density |-> <<<<>>, <<>>, <<>>>>,
     ld50 |-> <<<<>>, <<>>, <<>>, <<>>>>,
     name |-> <<<<>>, <<>>, <<>>, <<>>, <<>>, <<>>>>,
     flammable |-> <<<<>>, <<>>, <<>>, <<>>, <<>>, <<>>, <<>>, <<>>, <<>>, <<>>, <<>>, <<>>>>,
     lel |-> <<<<>>, <<>>, <<>>, <<>>>>,
     uel |-> <<<<>>, <<>>, <<>>, <<>>>>,
     non_flammable |-> FALSE,
     vapour_density |-> <<>>,
     ignition |-> <<>>,
     tlv |-> <<>>,
     lc50 |-> <<>>]

\* The texts in which some pattern matches.
MatchedTexts ==
    { EthanolText, EthanolTlvText, AcetoneText,
      UnknownText, BadPressureText, LelUelText,
      LowerUpperExplosiveText, LflUflText, FlammableLimitsRangeText,
      ExplosiveLimitsRangeText, FlammabilityLimitsRangeText, ParenthesizedRangeText,
      ExplosiveRangeText, LelOnlyText, UpperFlammableOnlyText,
      LowerUpperFlammableText, NonCombustibleText, LelNotFlammableText,
      StaticDischargeText, NoStaticHazardText, HandlingText,
      HandlingStaticText, MmHgText, PaText,
      GenericMmHgText, GenericPaText, GenericAtmText,
      BracketCasText, BareCasText, TrailingDigitCasText }

\* What is found in each of them, for the re calls that find something.
MatchTable ==
    [text \in MatchedTexts |->
        CASE text = EthanolText ->
            [cas |-> <<<<>>, <<"64-17-5">>, <<>>, <<>>, <<>>, <<>>, <<"64-17-5">>>>,
                tlv |-> <<"n/a">>]
          [] text = EthanolTlvText ->
            [cas |-> <<<<>>, <<"64-17-5">>, <<>>, <<>>, <<>>, <<>>, <<"64-17-5">>>>,
                density |-> <<<<"('0.79', 'g/cm3')">>, <<>>, <<>>>>,
                tlv |-> <<"5 ppm">>]
          [] text = AcetoneText ->
            [cas |-> <<<<>>, <<"67-64-1">>, <<>>, <<>>, <<>>, <<>>, <<"67-64-1">>>>,
                vp |-> <<<<"1,5">>, <<>>, <<>>, <<"1,5">>>>]
          [] text = UnknownText ->
            [name |-> <<<<"Mix">>, <<"Mix">>, <<"Mix">>, <<"Mix">>, <<"Mix">>, <<>>>>,
                tlv |-> <<"5 ppm">>]
          [] text = BadPressureText ->
            [vp |-> <<<<"1,2,3">>, <<>>, <<>>, <<"1,2,3">>>>]
          [] text = LelUelText ->
            [flammable |-> <<<<<<"2.1", "12.8">>>>, <<>>, <<>>, <<>>, <<>>, <<>>, <<>>, <<>>, <<<<"2.1", "12.8">>>>, <<>>, <<<<"2.1">>>>, <<<<"12.8">>>>>>,
                lel |-> <<<<"2.1">>, <<>>, <<>>, <<>>>>,
                uel |-> <<<<"12.8">>, <<>>, <<>>, <<>>>>]
          [] text = LowerUpperExplosiveText ->
            [flammable |-> <<<<>>, <<<<"3", "19">>>>, <<>>, <<>>, <<>>, <<>>, <<>>, <<>>, <<>>, <<>>, <<>>, <<>>>>,
                lel |-> <<<<>>, <<"3">>, <<>>, <<>>>>,
                uel |-> <<<<>>, <<"19">>, <<>>, <<>>>>]
          [] text = LflUflText ->
            [flammable |-> <<<<>>, <<>>, <<<<"1", "7">>>>, <<>>, <<>>, <<>>, <<>>, <<>>, <<>>, <<>>, <<>>, <<>>>>,
                lel |-> <<<<>>, <<>>, <<"1">>, <<>>>>,
                uel |-> <<<<>>, <<>>, <<"7">>, <<>>>>]
          [] text = FlammableLimitsRangeText ->
            [flammable |-> <<<<>>, <<>>, <<>>, <<<<"2.1", "12.8">>>>, <<>>, <<>>, <<>>, <<>>, <<>>, <<>>, <<>>, <<>>>>]
          [] text = ExplosiveLimitsRangeText ->
            [flammable |-> <<<<>>, <<>>, <<>>, <<>>, <<<<"2", "12">>>>, <<>>, <<>>, <<>>, <<>>, <<<<"2", "12">>>>, <<>>, <<>>>>]
          [] text = FlammabilityLimitsRangeText ->
            [flammable |-> <<<<>>, <<>>, <<>>, <<>>, <<>>, <<<<"2.1", "12.8">>>>, <<>>, <<>>, <<>>, <<>>, <<>>, <<>>>>]
          [] text = ParenthesizedRangeText ->
            [flammable |-> <<<<>>, <<>>, <<>>, <<>>, <<>>, <<>>, <<<<"2.1", "12.8">>>>, <<>>, <<>>, <<>>, <<>>, <<>>>>]
          [] text = ExplosiveRangeText ->
            [flammable |-> <<<<>>, <<>>, <<>>, <<>>, <<>>, <<>>, <<>>, <<>>, <<>>, <<<<"2", "12">>>>, <<>>, <<>>>>]
          [] text = LelOnlyText ->
            [flammable |-> <<<<>>, <<>>, <<>>, <<>>, <<>>, <<>>, <<>>, <<>>, <<>>, <<>>, <<<<"2.1">>>>, <<>>>>,
                lel |-> <<<<"2.1">>, <<>>, <<>>, <<>>>>]
          [] text = UpperFlammableOnlyText ->
            [uel |-> <<<<>>, <<>>, <<>>, <<"12">>>>]
          [] text = LowerUpperFlammableText ->
            [lel |-> <<<<>>, <<>>, <<>>, <<"1">>>>,
                uel |-> <<<<>>, <<>>, <<>>, <<"6">>>>]
          [] text = NonCombustibleText ->
            [non_flammable |-> TRUE]
          [] text = LelNotFlammableText ->
            [flammable |-> <<<<>>, <<>>, <<>>, <<>>, <<>>, <<>>, <<>>, <<>>, <<>>, <<>>, <<<<"2.1">>>>, <<>>>>,
                lel |-> <<<<"2.1">>, <<>>, <<>>, <<>>>>,
                non_flammable |-> TRUE]
          [] text = StaticDischargeText ->
            [static |-> TRUE]
          [] text = NoStaticHazardText ->
            [no_static |-> TRUE,
                static |-> TRUE]
          [] text = HandlingText ->
            [handling |-> TRUE]
          [] text = HandlingStaticText ->
            [static |-> TRUE,
                handling |-> TRUE]
          [] text = MmHgText ->
            [vp |-> <<<<>>, <<"100">>, <<>>, <<"100">>>>]
          [] text = PaText ->
            [vp |-> <<<<>>, <<>>, <<"2000">>, <<"2000">>>>]
          [] text = GenericMmHgText ->
            [vp |-> <<<<>>, <<>>, <<>>, <<"100">>>>]
          [] text = GenericPaText ->
            [vp |-> <<<<>>, <<>>, <<>>, <<"2000">>>>]
          [] text = GenericAtmText ->
            [vp |-> <<<<>>, <<>>, <<>>, <<"2">>>>]
          [] text = BracketCasText ->
            [cas |-> <<<<"7732-18-5">>, <<>>, <<>>, <<>>, <<>>, <<>>, <<"7732-18-5">>>>]
          [] text = BareCasText ->
            [cas |-> <<<<>>, <<>>, <<>>, <<>>, <<>>, <<>>, <<"67-64-1">>>>]
          [] text = TrailingDigitCasText ->
            [cas |-> <<<<>>, <<>>, <<"64-17-5">>, <<>>, <<>>, <<"64-17-5">>, <<>>>>]]

\* What the re calls find in a text: NoMatches, but for the fields of the table.
Matches(text) ==
    IF text \in MatchedTexts
    THEN LET found == MatchTable[text]
         IN  [field \in DOMAIN NoMatches |->
                 IF field \in DOMAIN found THEN found[field] ELSE NoMatches[field]]
    ELSE NoMatches

(***************************************************************************)
(* Field extraction: parse_sds_data and its helpers.                       *)
(***************************************************************************)
\* The first match of a list of per-pattern matches; <<>> when none matched.
RECURSIVE FirstMatch(_)
FirstMatch(ms) ==
    IF ms = <<>> THEN <<>>
    ELSE IF Head(ms) # <<>> THEN Head(ms)
    ELSE FirstMatch(Tail(ms))

Contains(s, sub) ==
    \E k \in 1..(Len(s) - Len(sub) + 1) : SubSeq(s, k, k + Len(sub) - 1) = sub

find_between(m, default) ==
    IF m # <<>>
    THEN LET result == strip(m[1])
         IN  IF HasDigit(result) THEN clean_numeric_value(result) ELSE result
    ELSE default

\* The first result other than "NDA" of find_between over a list of patterns.
RECURSIVE FirstFound(_)
FirstFound(ms) ==
    IF ms = <<>> THEN "NDA"
    ELSE IF find_between(Head(ms), "NDA") # "NDA" THEN find_between(Head(ms), "NDA")
    ELSE FirstFound(Tail(ms))

\* extract_cas_number, were the match put through the numeric cleaning.
extract_cas_number_cleaned(text) ==
    LET matches == FirstMatch(Matches(text).cas)
    IN  IF matches # <<>> THEN clean_numeric_value(strip(matches[1])) ELSE "NDA"

extract_cas_number(text) ==
    LET matches == FirstMatch(Matches(text).cas)
    IN  IF matches # <<>> THEN strip(matches[1]) ELSE "NDA"

\* extract_static_hazard, were the static phrases looked for before the
\* no-static-hazard phrases.
extract_static_hazard_staticFirst(text) ==
    IF Matches(text).static THEN "Yes"
    ELSE IF Matches(text).no_static THEN "No"
    ELSE IF Matches(text).handling THEN "No"
    ELSE "NDA"

extract_static_hazard(text) ==
    IF Matches(text).no_static THEN "No"
    ELSE IF Matches(text).static THEN "Yes"
    ELSE IF Matches(text).handling THEN "No"
    ELSE "NDA"

\* Number of leading patterns of flammable_patterns tried for a LEL/UEL pair.
PairPatterns == 5

\* extract_flammable_limits, were the non-flammability statements looked for
\* before the limits.
extract_flammable_limits_statementFirst(text) ==
    LET pair == FirstMatch(SubSeq(Matches(text).flammable, 1, PairPatterns))
        found == pair # <<>> /\ Len(pair[1]) = 2
        lel0 == IF found THEN strip(pair[1][1]) ELSE ""
        uel0 == IF found THEN strip(pair[1][2]) ELSE ""
        single == lel0 = "" \/ uel0 = ""
        lel1 == FirstMatch(Matches(text).lel)
        uel1 == FirstMatch(Matches(text).uel)
        lel_value == IF single /\ lel1 # <<>> THEN strip(lel1[1]) ELSE lel0
        uel_value == IF single /\ uel1 # <<>> THEN strip(uel1[1]) ELSE uel0
    IN  IF Matches(text).non_flammable THEN "Non-flammable"
        ELSE IF lel_value # "" /\ uel_value # ""
        THEN "LEL: " \o lel_value \o "%, UEL: " \o uel_value \o "%"
        ELSE IF lel_value # "" THEN "LEL: " \o lel_value \o "%"
        ELSE IF uel_value # "" THEN "UEL: " \o uel_value \o "%"
        ELSE "NDA"

\* lel_value and uel_value are "" where the code holds None.
extract_flammable_limits(text) ==
    LET pair == FirstMatch(SubSeq(Matches(text).flammable, 1, PairPatterns))
        found == pair # <<>> /\ Len(pair[1]) = 2
        lel0 == IF found THEN strip(pair[1][1]) ELSE ""
        uel0 == IF found THEN strip(pair[1][2]) ELSE ""
        single == lel0 = "" \/ uel0 = ""
        lel1 == FirstMatch(Matches(text).lel)
        uel1 == FirstMatch(Matches(text).uel)
        lel_value == IF single /\ lel1 # <<>> THEN strip(lel1[1]) ELSE lel0
        uel_value == IF single /\ uel1 # <<>> THEN strip(uel1[1]) ELSE uel0
    IN  IF lel_value # "" /\ uel_value # ""
        THEN "LEL: " \o lel_value \o "%, UEL: " \o uel_value \o "%"
        ELSE IF lel_value # "" THEN "LEL: " \o lel_value \o "%"
        ELSE IF uel_value # "" THEN "UEL: " \o uel_value \o "%"
        ELSE IF Matches(text).non_flammable THEN "Non-flammable"
        ELSE "NDA"

\* "atm" in pattern and "Pa" in pattern, for the four vp_patterns in order.
vp_pattern_has_atm == <<TRUE, FALSE, FALSE, TRUE>>

vp_pattern_has_Pa == <<FALSE, FALSE, TRUE, TRUE>>

\* The vapour pressure loop from pattern k on: <<"ok", vapour_pressure>>, or
\* <<"ValueError", value>> when float(value) raises.
RECURSIVE VapourPressureFrom(_, _)
VapourPressureFrom(text, k) ==
    IF k > Len(Matches(text).vp) THEN <<"ok", "NDA">>
    ELSE IF Matches(text).vp[k] = <<>> THEN VapourPressureFrom(text, k + 1)
    ELSE LET value == clean_numeric_value(Matches(text).vp[k][1])
         IN  IF value = "NDA" THEN VapourPressureFrom(text, k + 1)
             ELSE IF vp_pattern_has_atm[k]
             THEN (IF FloatParses(value) THEN <<"ok", ConvertAtm(value)>>
                   ELSE <<"ValueError", value>>)
             ELSE IF vp_pattern_has_Pa[k]
             THEN (IF FloatParses(value) THEN <<"ok", ConvertPa(value)>>
                   ELSE <<"ValueError", value>>)
             ELSE <<"ok", value>>

MaxNameLen == 60

RECURSIVE ChemicalName(_)
ChemicalName(ms) ==
    IF ms = <<>> THEN "NDA"
    ELSE IF Head(ms) = <<>> THEN ChemicalName(Tail(ms))
    ELSE LET extracted == strip(Head(ms)[1])
         IN  IF Len(extracted) > MaxNameLen \/ Contains(lower(extracted), "/")
                \/ Contains(lower(extracted), "company")
             THEN ChemicalName(Tail(ms))
             ELSE extracted

\* os.path.splitext(source_filename)[0]
SplitextRoot(filename) ==
    LET dots == {k \in 1..Len(filename) : Char(filename, k) = "."}
        last == CHOOSE k \in dots : \A j \in dots : j <= k
    IN  IF dots # {} /\ (\E j \in 1..(last - 1) : Char(filename, j) # ".")
        THEN SubSeq(filename, 1, last - 1)
        ELSE filename

\* [raised |-> FALSE, data |-> the record] or [raised |-> TRUE, error |-> str(e)]
parse_sds_data(text, source_filename) ==
    LET cas_number == extract_cas_number(text)
        desc == SplitextRoot(source_filename)
        physical_state0 == find_between(Matches(text).physical_state, "NDA")
        physical_state == IF physical_state0 = "NDA"
                          THEN find_between(Matches(text).state, "NDA")
                          ELSE physical_state0
        static_hazard == extract_static_hazard(text)
        vp == VapourPressureFrom(text, 1)
        vapour_temp == IF Matches(text).temp # <<>> THEN Matches(text).temp[1] ELSE "21"
    IN  IF vp[1] # "ok"
        THEN [raised |-> TRUE,
              error |-> "could not convert string to float: '" \o vp[2] \o "'"]
        ELSE [raised |-> FALSE,
              data |->
                  ("Description" :> desc)
               @@ ("CAS Number" :> cas_number)
               @@ ("Physical state (solid/liquid/gas)" :> physical_state)
               @@ ("Composition" :> ChemicalName(Matches(text).name))
               @@ ("Static Hazard" :> static_hazard)
               @@ ("Vapour Pressure (in mmHg)" :> vp[2])
               @@ ("at temp (in degC)" :> vapour_temp)
               @@ ("Flash Point (degC)" :> find_between(Matches(text).flash_point, "NDA"))
               @@ ("Flammable Limits by Volume (LEL, UEL)" :> extract_flammable_limits(text))
               @@ ("Melting Point (degC)" :> find_between(Matches(text).melting_point, "NDA"))
               @@ ("Boiling Point (degC)" :> find_between(Matches(text).boiling_point, "NDA"))
               @@ ("Density (g/cc)" :> FirstFound(Matches(text).density))
               @@ ("Relative Vapour Density (Air = 1)" :> find_between(Matches(text).vapour_density, "NDA"))
               @@ ("Ignition Temperature (degC)" :> find_between(Matches(text).ignition, "NDA"))
               @@ ("Threshold Limit Value (ppm)" :> find_between(Matches(text).tlv, "NDA"))
               @@ ("Immediate Danger to Life in Humans" :> find_between(Matches(text).lc50, "NDA"))
               @@ ("Toxicological Info LD50 (mg/kg)" :> FirstFound(Matches(text).ld50))
               @@ ("Source of Information" :> "MSDS")]

(***************************************************************************)
(* Text extraction.  A PDF is its file name and what each of the two       *)
(* extractors does with it: raise, or return a text.                       *)
(***************************************************************************)
extract_pdf_text_fallback(pdf) ==
    IF pdf.pypdf2_raises THEN BlankText ELSE pdf.pypdf2_text

extract_pdf_text(pdf) ==
    IF ~pdf.plumber_raises /\ strip(pdf.plumber_text) # ""
    THEN pdf.plumber_text
    ELSE LET text == extract_pdf_text_fallback(pdf)
         IN  IF strip(text) # "" THEN text ELSE BlankText

\* The same two functions with their control flow: how each call ends
\* (raised: an exception leaves the function) and which extractors were
\* opened on the way.
Usable(text) == strip(text) # ""

\* with pdfplumber.open(pdf_path) and the loop over its pages.
PdfPlumber(pdf) ==
    [raised |-> pdf.plumber_raises,
     text |-> IF pdf.plumber_raises THEN BlankText ELSE pdf.plumber_text]

\* with open(pdf_path, 'rb'), PyPDF2.PdfReader and the loop over its pages.
PyPdf2(pdf) ==
    [raised |-> pdf.pypdf2_raises,
     text |-> IF pdf.pypdf2_raises THEN BlankText ELSE pdf.pypdf2_text]

\* extract_pdf_text_fallback, without its try.
extract_pdf_text_fallback_run_noTry(pdf) ==
    PyPdf2(pdf)

extract_pdf_text_fallback_run(pdf) ==
    LET read == PyPdf2(pdf)
    IN  IF read.raised
        THEN [raised |-> FALSE, text |-> BlankText]
        ELSE read

\* extract_pdf_text, were the text of pdfplumber returned whenever it did
\* not raise.
extract_pdf_text_run_anyText(pdf_file) ==
    LET read == PdfPlumber(pdf_file)
        fallback == extract_pdf_text_fallback_run(pdf_file)
    IN  IF ~read.raised
        THEN [raised |-> FALSE, text |-> read.text, extractors |-> <<"pdfplumber">>]
        ELSE [raised |-> fallback.raised,
              text |-> IF ~fallback.raised /\ Usable(fallback.text)
                       THEN fallback.text ELSE BlankText,
              extractors |-> <<"pdfplumber", "PyPDF2">>]

extract_pdf_text_run(pdf_file) ==
    LET read == PdfPlumber(pdf_file)
        fallback == extract_pdf_text_fallback_run(pdf_file)
    IN  IF ~read.raised /\ Usable(read.text)
        THEN [raised |-> FALSE, text |-> read.text, extractors |-> <<"pdfplumber">>]
        ELSE [raised |-> fallback.raised,
              text |-> IF ~fallback.raised /\ Usable(fallback.text)
                       THEN fallback.text ELSE BlankText,
              extractors |-> <<"pdfplumber", "PyPDF2">>]

(***************************************************************************)
(* Merge by CAS Number.  The dict `merged` is the sequence of its          *)
(* <<key, row>> items in insertion order.                                  *)
(***************************************************************************)
NoCasKeys == {"nda", "", "n/a"}

AbsentValues == {"", "NDA", "n/a"}

\* MergeKey, were the key of a record without CAS Number its description only.
MergeKey_descriptionOnly(row, merged) ==
    LET cas_key == strip(row["CAS Number"])
    IN  IF lower(cas_key) \in NoCasKeys
        THEN "no_cas_" \o row["Description"]
        ELSE cas_key

MergeKey(row, merged) ==
    LET cas_key == strip(row["CAS Number"])
    IN  IF lower(cas_key) \in NoCasKeys
        THEN "no_cas_" \o row["Description"] \o "_" \o ToString(Len(merged))
        ELSE cas_key

\* MergeInto, were the later record to win over a value already held.
MergeInto_lastWins(current_row, row) ==
    [col \in DOMAIN current_row |->
        IF row[col] \notin AbsentValues THEN row[col] ELSE current_row[col]]

\* The loop body over COLUMNS for a row whose key is already in merged.
MergeInto(current_row, row) ==
    [col \in DOMAIN current_row |->
        IF current_row[col] \in AbsentValues /\ row[col] \notin AbsentValues
        THEN row[col]
        ELSE current_row[col]]

MergeRow(merged, row) ==
    LET cas_key == MergeKey(row, merged)
        held == {k \in 1..Len(merged) : merged[k][1] = cas_key}
    IN  IF held = {}
        THEN Append(merged, <<cas_key, row>>)
        ELSE [k \in 1..Len(merged) |->
                 IF k \in held THEN <<cas_key, MergeInto(merged[k][2], row)>>
                 ELSE merged[k]]

RECURSIVE MergeRows(_, _)
MergeRows(merged, rows) ==
    IF rows = <<>> THEN merged
    ELSE MergeRows(MergeRow(merged, Head(rows)), Tail(rows))

\* merge_by_cas_number_optional, were it to merge whatever the option.
merge_by_cas_number_optional_always(rows, merge_duplicates) ==
    IF rows = <<>> THEN <<>>
    ELSE LET merged == MergeRows(<<>>, rows)
         IN  [k \in 1..Len(merged) |-> merged[k][2]]

merge_by_cas_number_optional(rows, merge_duplicates) ==
    IF rows = <<>> THEN <<>>
    ELSE IF ~merge_duplicates THEN rows
    ELSE LET merged == MergeRows(<<>>, rows)
         IN  [k \in 1..Len(merged) |-> merged[k][2]]

(***************************************************************************)
(* Data frames: the column list and the rows, each row a function from the *)
(* column names to values.                                                 *)
(***************************************************************************)
\* The keys of the dict extracted_data, in the order of the dict display.
RecordKeys ==
    << "Description",
       "CAS Number",
       "Physical state (solid/liquid/gas)",
       "Composition",
       "Static Hazard",
       "Vapour Pressure (in mmHg)",
       "at temp (in degC)",
       "Flash Point (degC)",
       "Flammable Limits by Volume (LEL, UEL)",
       "Melting Point (degC)",
       "Boiling Point (degC)",
       "Density (g/cc)",
       "Relative Vapour Density (Air = 1)",
       "Ignition Temperature (degC)",
       "Threshold Limit Value (ppm)",
       "Immediate Danger to Life in Humans",
       "Toxicological Info LD50 (mg/kg)",
       "Source of Information" >>

\* pd.DataFrame(processed_data): the columns are the keys of the records.
DataFrame(rows) == [columns |-> RecordKeys, rows |-> rows]

\* for col in COLUMNS: if col not in df.columns: df[col] = "NDA"
EnsureColumns(df) ==
    LET missing == SelectSeq(COLUMNS, LAMBDA col : col \notin Range(df.columns))
    IN  [columns |-> df.columns \o missing,
         rows |-> [k \in 1..Len(df.rows) |->
                      [col \in Range(df.columns) \cup Range(missing) |->
                          IF col \in Range(df.columns) THEN df.rows[k][col] ELSE "NDA"]]]

\* Reindex, were the columns left as they come.
Reindex_keepColumns(df) ==
    [columns |-> df.columns,
     rows |-> [k \in 1..Len(df.rows) |->
                  [col \in Range(COLUMNS) |->
                      IF col \in Range(df.columns) THEN df.rows[k][col] ELSE "NDA"]]]

\* df[COLUMNS] and df.reindex(columns=COLUMNS, fill_value="NDA")
Reindex(df) ==
    [columns |-> COLUMNS,
     rows |-> [k \in 1..Len(df.rows) |->
                  [col \in Range(COLUMNS) |->
                      IF col \in Range(df.columns) THEN df.rows[k][col] ELSE "NDA"]]]

\* set(existing_df[col].dropna().astype(str).str.strip().str.lower())
ColumnValues(df, col) == {lower(strip(df.rows[k][col])) : k \in 1..Len(df.rows)}

\* check_for_duplicates, were a record kept in mode both when new in either criterion.
check_for_duplicates_eitherNew(existing_df, new_data_df, duplicate_check_mode) ==
    IF duplicate_check_mode = "none" THEN new_data_df
    ELSE IF Len(existing_df.rows) = 0 THEN new_data_df
    ELSE LET existing_cas == ColumnValues(existing_df, "CAS Number") \ {"nda"}
             cas_filter(row) == lower(strip(row["CAS Number"])) \notin existing_cas
             existing_desc == ColumnValues(existing_df, "Description")
             desc_filter(row) == lower(strip(row["Description"])) \notin existing_desc
             has_cas == duplicate_check_mode \in {"cas", "both"}
                        /\ "CAS Number" \in Range(existing_df.columns)
             has_desc == duplicate_check_mode \in {"description", "both"}
                         /\ "Description" \in Range(existing_df.columns)
             combined_filter(row) ==
                 IF duplicate_check_mode = "both"
                 THEN cas_filter(row) \/ desc_filter(row)
                 ELSE IF has_cas THEN cas_filter(row) ELSE desc_filter(row)
         IN  IF has_cas \/ has_desc
             THEN [columns |-> new_data_df.columns,
                   rows |-> SelectSeq(new_data_df.rows, combined_filter)]
             ELSE new_data_df

\* check_for_duplicates, were the sentinel left in the set of existing CAS Numbers.
check_for_duplicates_keepNda(existing_df, new_data_df, duplicate_check_mode) ==
    IF duplicate_check_mode = "none" THEN new_data_df
    ELSE IF Len(existing_df.rows) = 0 THEN new_data_df
    ELSE LET existing_cas == ColumnValues(existing_df, "CAS Number")
             cas_filter(row) == lower(strip(row["CAS Number"])) \notin existing_cas
             existing_desc == ColumnValues(existing_df, "Description")
             desc_filter(row) == lower(strip(row["Description"])) \notin existing_desc
             has_cas == duplicate_check_mode \in {"cas", "both"}
                        /\ "CAS Number" \in Range(existing_df.columns)
             has_desc == duplicate_check_mode \in {"description", "both"}
                         /\ "Description" \in Range(existing_df.columns)
             combined_filter(row) ==
                 IF duplicate_check_mode = "both"
                 THEN cas_filter(row) /\ desc_filter(row)
                 ELSE IF has_cas THEN cas_filter(row) ELSE desc_filter(row)
         IN  IF has_cas \/ has_desc
             THEN [columns |-> new_data_df.columns,
                   rows |-> SelectSeq(new_data_df.rows, combined_filter)]
             ELSE new_data_df

\* check_for_duplicates, were mode description to look at the CAS Number too.
check_for_duplicates_descAlsoCas(existing_df, new_data_df, duplicate_check_mode) ==
    IF duplicate_check_mode = "none" THEN new_data_df
    ELSE IF Len(existing_df.rows) = 0 THEN new_data_df
    ELSE LET existing_cas == ColumnValues(existing_df, "CAS Number") \ {"nda"}
             cas_filter(row) == lower(strip(row["CAS Number"])) \notin existing_cas
             existing_desc == ColumnValues(existing_df, "Description")
             desc_filter(row) == lower(strip(row["Description"])) \notin existing_desc
             has_cas == duplicate_check_mode \in {"cas", "both"}
                        /\ "CAS Number" \in Range(existing_df.columns)
             has_desc == duplicate_check_mode \in {"description", "both"}
                         /\ "Description" \in Range(existing_df.columns)
             combined_filter(row) ==
                 IF duplicate_check_mode \in {"both", "description"}
                 THEN cas_filter(row) /\ desc_filter(row)
                 ELSE IF has_cas THEN cas_filter(row) ELSE desc_filter(row)
         IN  IF has_cas \/ has_desc
             THEN [columns |-> new_data_df.columns,
                   rows |-> SelectSeq(new_data_df.rows, combined_filter)]
             ELSE new_data_df

\* check_for_duplicates, were mode none to filter by Description.
check_for_duplicates_noneFilters(existing_df, new_data_df, duplicate_check_mode) ==
    IF Len(existing_df.rows) = 0 THEN new_data_df
    ELSE LET existing_cas == ColumnValues(existing_df, "CAS Number") \ {"nda"}
             cas_filter(row) == lower(strip(row["CAS Number"])) \notin existing_cas
             existing_desc == ColumnValues(existing_df, "Description")
             desc_filter(row) == lower(strip(row["Description"])) \notin existing_desc
             has_cas == duplicate_check_mode \in {"cas", "both"}
                        /\ "CAS Number" \in Range(existing_df.columns)
             has_desc == duplicate_check_mode \in {"description", "both", "none"}
                         /\ "Description" \in Range(existing_df.columns)
             combined_filter(row) ==
                 IF duplicate_check_mode = "both"
                 THEN cas_filter(row) /\ desc_filter(row)
                 ELSE IF has_cas THEN cas_filter(row) ELSE desc_filter(row)
         IN  IF has_cas \/ has_desc
             THEN [columns |-> new_data_df.columns,
                   rows |-> SelectSeq(new_data_df.rows, combined_filter)]
             ELSE new_data_df

check_for_duplicates(existing_df, new_data_df, duplicate_check_mode) ==
    IF duplicate_check_mode = "none" THEN new_data_df
    ELSE IF Len(existing_df.rows) = 0 THEN new_data_df
    ELSE LET existing_cas == ColumnValues(existing_df, "CAS Number") \ {"nda"}
             cas_filter(row) == lower(strip(row["CAS Number"])) \notin existing_cas
             existing_desc == ColumnValues(existing_df, "Description")
             desc_filter(row) == lower(strip(row["Description"])) \notin existing_desc
             has_cas == duplicate_check_mode \in {"cas", "both"}
                        /\ "CAS Number" \in Range(existing_df.columns)
             has_desc == duplicate_check_mode \in {"description", "both"}
                         /\ "Description" \in Range(existing_df.columns)
             combined_filter(row) ==
                 IF duplicate_check_mode = "both"
                 THEN cas_filter(row) /\ desc_filter(row)
                 ELSE IF has_cas THEN cas_filter(row) ELSE desc_filter(row)
         IN  IF has_cas \/ has_desc
             THEN [columns |-> new_data_df.columns,
                   rows |-> SelectSeq(new_data_df.rows, combined_filter)]
             ELSE new_data_df

\* pd.concat, were the new entries put before the existing rows.
Concat_newFirst(df1, df2) == [columns |-> df1.columns, rows |-> df2.rows \o df1.rows]

\* pd.concat([existing_df, new_entries], ignore_index=True)
Concat(df1, df2) == [columns |-> df1.columns, rows |-> df1.rows \o df2.rows]

(***************************************************************************)
(* The inputs of one upload: the PDFs, the existing spreadsheet and the    *)
(* two processing options.                                                 *)
(***************************************************************************)
Pdf(filename, plumber_raises, plumber_text, pypdf2_raises, pypdf2_text) ==
    [filename |-> filename,
     plumber_raises |-> plumber_raises, plumber_text |-> plumber_text,
     pypdf2_raises |-> pypdf2_raises, pypdf2_text |-> pypdf2_text]

\* a.pdf and a.PDF are two files with the same Description.
Pdfs ==
    { Pdf("a.pdf", FALSE, EthanolText, FALSE, BlankText),
      Pdf("a.PDF", TRUE, BlankText, FALSE, EthanolTlvText),
      Pdf("B.pdf", FALSE, EthanolTlvText, FALSE, BlankText),
      Pdf("B.pdf", FALSE, AcetoneText, FALSE, BlankText),
      Pdf("a.pdf", FALSE, UnknownText, FALSE, BlankText),
      Pdf("a.PDF", FALSE, UnknownText, FALSE, BlankText),
      Pdf("B.pdf", FALSE, UnknownText, FALSE, BlankText),
      Pdf("B.pdf", FALSE, BadPressureText, FALSE, BlankText),
      Pdf("a.PDF", FALSE, WhitespaceText, TRUE, BlankText) }

\* secure_filename and save: one path holds one file.
Batches ==
    {batch \in UNION {[1..n -> Pdfs] : n \in 1..MaxDocs} :
        \A j, k \in 1..Len(batch) :
            batch[j].filename = batch[k].filename => batch[j] = batch[k]}

ExistingRow(desc, cas) ==
    [col \in Range(COLUMNS) |->
        IF col = "Description" THEN desc
        ELSE IF col = "CAS Number" THEN cas
        ELSE "NDA"]

ExistingRows == {ExistingRow(" A", "64-17-5 "), ExistingRow("b", "NDA")}

\* A sheet written before the schema had 18 columns, in another column order.
LegacySheet ==
    [readable |-> TRUE,
     columns |-> <<"CAS Number", "Description">>,
     rows |-> <<("CAS Number" :> "64-17-5") @@ ("Description" :> "b")>>]

\* A file pd.read_excel cannot load.
UnreadableSheet == [readable |-> FALSE, columns |-> <<>>, rows |-> <<>>]

Sheets ==
    {[readable |-> TRUE, columns |-> COLUMNS, rows |-> rows] :
        rows \in UNION {[1..n -> ExistingRows] : n \in 0..MaxExisting}}
    \cup {LegacySheet, UnreadableSheet}

DuplicateCheckModes == {"none", "cas", "description", "both"}

\* str(uuid.uuid4()) of two uploads.
FirstSession == "session-1"

SecondSession == "session-2"

NoFrame == [columns |-> <<>>, rows |-> <<>>]

(***************************************************************************)
(* State of one run of the task process_sds_files.                         *)
(***************************************************************************)
VARIABLES
    pdf_file_paths,    \* the uploaded PDFs, in upload order
    uploaded_excel,    \* the spreadsheet as the user uploaded it
    merge_duplicates,
    duplicate_check,
    session_id,        \* the session of the invocation taking the steps
    upload_folder,     \* UPLOAD_FOLDER: for each session id its directory,
                       \* with the saved PDFs, the spreadsheet at
                       \* excel_file_path and the output file, <<>> if absent
    peer,              \* <<>>, or <<the state of a second invocation that the
                       \* worker pool runs at the same time>>
    pc,
    i,                 \* number of loop iterations done
    all_data,
    processed_files,
    skipped_files,
    new_data_df,
    existing_df,
    new_entries,
    combined_df,
    excel_read,        \* pd.read_excel(excel_file_path) has been called
    exception,         \* str(e) of the exception on its way to the handler
    result,            \* <<>> until the task returns, then <<return value>>
    value_str,         \* the argument of a call of clean_numeric_value
    cleaned,           \* what the calls made on it so far have returned
    pdf_arg,          \* <<>>, or <<the argument of a call of extract_pdf_text>>
    extracted,         \* <<>> until that call ends, then <<how it ended>>
    now,               \* datetime.now(), in hours
    stat,              \* for each entry of UPLOAD_FOLDER and of /tmp what the
                       \* file system says of it
    tmp_dir,           \* the names of the files in /tmp
    cleanup            \* the locals of a run of cleanup_old_files

vars ==
    <<session_id, upload_folder, peer,
      pdf_file_paths, uploaded_excel, merge_duplicates, duplicate_check, pc, i, all_data, processed_files, skipped_files,
      new_data_df, existing_df, new_entries, combined_df, excel_read,
      exception, result, value_str, cleaned, pdf_arg, extracted,
      now, stat, tmp_dir, cleanup>>

inputs ==
    <<session_id, pdf_file_paths, uploaded_excel, merge_duplicates, duplicate_check>>

\* The state outside process_sds_files: no step of the task changes it.
outside == <<value_str, cleaned, pdf_arg, extracted, now, stat, tmp_dir, cleanup>>

\* No call of clean_numeric_value outside the task is under way.
NotCleaning ==
    /\ value_str = ""
    /\ cleaned = <<>>

\* No call of extract_pdf_text outside the task is under way.
NotExtracting ==
    /\ pdf_arg = <<>>
    /\ extracted = <<>>

\* No run of cleanup_old_files is under way.
NoCleanup ==
    /\ now = 0
    /\ stat = <<>>
    /\ tmp_dir = {}
    /\ cleanup = <<>>

NoCalls ==
    /\ NotCleaning
    /\ NotExtracting
    /\ NoCleanup

\* session_dir = os.path.join(UPLOAD_FOLDER, session_id)
session_dir == upload_folder[session_id]

\* The session directory as upload_files leaves it.
SavedFiles(batch, sheet) == [pdfs |-> Range(batch), excel |-> <<sheet>>, output |-> <<>>]

\* The session directory after shutil.rmtree.
NoFiles == [pdfs |-> {}, excel |-> <<>>, output |-> <<>>]

\* What the extractors do with pdf_path: opening a file that is no longer in
\* the session directory raises in both of them.
ReadPdf(pdf_path) ==
    IF pdf_path \in session_dir.pdfs THEN pdf_path
    ELSE [pdf_path EXCEPT !.plumber_raises = TRUE, !.pypdf2_raises = TRUE]

\* upload_files has saved the files and started the task.
Init ==
    /\ pdf_file_paths \in Batches
    /\ uploaded_excel \in Sheets
    /\ merge_duplicates \in BOOLEAN
    /\ duplicate_check \in DuplicateCheckModes
    /\ session_id = FirstSession
    /\ upload_folder = (session_id :> SavedFiles(pdf_file_paths, uploaded_excel))
    /\ peer = <<>>
    /\ pc = "extract"
    /\ i = 0
    /\ all_data = <<>>
    /\ processed_files = 0
    /\ skipped_files = <<>>
    /\ new_data_df = NoFrame
    /\ existing_df = NoFrame
    /\ new_entries = NoFrame
    /\ combined_df = NoFrame
    /\ excel_read = FALSE
    /\ exception = ""
    /\ result = <<>>
    /\ NoCalls

\* ProcessFile, were a skipped document to end the loop.
ProcessFile_abortOnSkip ==
    /\ pc = "extract"
    /\ i < Len(pdf_file_paths)
    /\ LET pdf == ReadPdf(pdf_file_paths[i + 1])
           filename == pdf.filename
           text == extract_pdf_text(pdf)
           parsed_data == parse_sds_data(text, filename)
       IN  IF strip(text) # ""
           THEN IF parsed_data.raised
                THEN /\ skipped_files' = Append(skipped_files,
                            filename \o " (processing error: " \o parsed_data.error \o ")")
                     /\ UNCHANGED <<all_data, processed_files>>
                ELSE /\ all_data' = Append(all_data, parsed_data.data)
                     /\ processed_files' = processed_files + 1
                     /\ UNCHANGED skipped_files
           ELSE /\ skipped_files' = Append(skipped_files, filename \o " (no text extracted)")
                /\ UNCHANGED <<all_data, processed_files>>
    /\ i' = IF strip(extract_pdf_text(ReadPdf(pdf_file_paths[i + 1]))) = ""
            THEN Len(pdf_file_paths)
            ELSE i + 1
    /\ UNCHANGED <<inputs, outside, peer, upload_folder, pc, new_data_df, existing_df, new_entries,
                   combined_df, excel_read, exception, result>>

\* ProcessFile, were a document whose processing raises left out of
\* skipped_files.
ProcessFile_errorUnlisted ==
    /\ pc = "extract"
    /\ i < Len(pdf_file_paths)
    /\ LET pdf == ReadPdf(pdf_file_paths[i + 1])
           filename == pdf.filename
           text == extract_pdf_text(pdf)
           parsed_data == parse_sds_data(text, filename)
       IN  IF strip(text) # ""
           THEN IF parsed_data.raised
                THEN UNCHANGED <<all_data, processed_files, skipped_files>>
                ELSE /\ all_data' = Append(all_data, parsed_data.data)
                     /\ processed_files' = processed_files + 1
                     /\ UNCHANGED skipped_files
           ELSE /\ skipped_files' = Append(skipped_files, filename \o " (no text extracted)")
                /\ UNCHANGED <<all_data, processed_files>>
    /\ i' = i + 1
    /\ UNCHANGED <<inputs, outside, peer, upload_folder, pc, new_data_df, existing_df, new_entries,
                   combined_df, excel_read, exception, result>>

\* One iteration of the loop over pdf_file_paths.
ProcessFile ==
    /\ pc = "extract"
    /\ i < Len(pdf_file_paths)
    /\ LET pdf == ReadPdf(pdf_file_paths[i + 1])
           filename == pdf.filename
           text == extract_pdf_text(pdf)
           parsed_data == parse_sds_data(text, filename)
       IN  IF strip(text) # ""
           THEN IF parsed_data.raised
                THEN /\ skipped_files' = Append(skipped_files,
                            filename \o " (processing error: " \o parsed_data.error \o ")")
                     /\ UNCHANGED <<all_data, processed_files>>
                ELSE /\ all_data' = Append(all_data, parsed_data.data)
                     /\ processed_files' = processed_files + 1
                     /\ UNCHANGED skipped_files
           ELSE /\ skipped_files' = Append(skipped_files, filename \o " (no text extracted)")
                /\ UNCHANGED <<all_data, processed_files>>
    /\ i' = i + 1
    /\ UNCHANGED <<inputs, outside, peer, upload_folder, pc, new_data_df, existing_df, new_entries,
                   combined_df, excel_read, exception, result>>

\* ReturnNoData, were it to clean up the session directory as the handler does.
ReturnNoData_cleanup ==
    /\ pc = "extract"
    /\ i = Len(pdf_file_paths)
    /\ all_data = <<>>
    /\ result' = <<[success |-> FALSE,
                    error |-> "No valid SDS data could be extracted from any PDF files. Please check if the PDFs contain readable text."]>>
    /\ pc' = "done"
    /\ upload_folder' = [upload_folder EXCEPT ![session_id] = NoFiles]
    /\ UNCHANGED <<inputs, outside, peer, i, all_data, processed_files, skipped_files,
                   new_data_df, existing_df, new_entries, combined_df, excel_read,
                   exception>>

\* if not all_data: return the failure
ReturnNoData ==
    /\ pc = "extract"
    /\ i = Len(pdf_file_paths)
    /\ all_data = <<>>
    /\ result' = <<[success |-> FALSE,
                    error |-> "No valid SDS data could be extracted from any PDF files. Please check if the PDFs contain readable text."]>>
    /\ pc' = "done"
    /\ UNCHANGED <<inputs, outside, peer, upload_folder, i, all_data, processed_files, skipped_files,
                   new_data_df, existing_df, new_entries, combined_df, excel_read,
                   exception>>

\* The merge and the construction of new_data_df.
MergeData ==
    /\ pc = "extract"
    /\ i = Len(pdf_file_paths)
    /\ all_data # <<>>
    /\ new_data_df' = Reindex(EnsureColumns(DataFrame(
                          merge_by_cas_number_optional(all_data, merge_duplicates))))
    /\ pc' = "read_excel"
    /\ UNCHANGED <<inputs, outside, peer, upload_folder, i, all_data, processed_files, skipped_files,
                   existing_df, new_entries, combined_df, excel_read, exception, result>>

\* The try block around pd.read_excel and its except branch.
ReadExcel ==
    /\ pc = "read_excel"
    /\ excel_read' = TRUE
    /\ IF session_dir.excel # <<>> /\ session_dir.excel[1].readable
       THEN LET sheet == session_dir.excel[1]
                existing == Reindex(EnsureColumns(
                                [columns |-> sheet.columns, rows |-> sheet.rows]))
                entries == check_for_duplicates(existing, new_data_df, duplicate_check)
            IN  /\ existing_df' = existing
                /\ new_entries' = entries
                /\ combined_df' = IF Len(entries.rows) > 0
                                  THEN Concat(existing, entries)
                                  ELSE existing
       ELSE /\ combined_df' = new_data_df
            /\ new_entries' = new_data_df
            /\ UNCHANGED existing_df
    /\ pc' = "save"
    /\ UNCHANGED <<inputs, outside, peer, upload_folder, i, all_data, processed_files, skipped_files,
                   new_data_df, exception, result>>

\* combined_df.to_excel into the session directory.
SaveResults ==
    /\ pc = "save"
    /\ upload_folder' = [upload_folder EXCEPT ![session_id].output = <<combined_df>>]
    /\ pc' = "result"
    /\ UNCHANGED <<inputs, outside, peer, i, all_data, processed_files, skipped_files, new_data_df,
                   existing_df, new_entries, combined_df, excel_read, exception, result>>

\* The result dict reads the name `message`, which nothing defines: NameError.
BuildResult ==
    /\ pc = "result"
    /\ exception' = "name 'message' is not defined"
    /\ pc' = "except"
    /\ UNCHANGED <<inputs, outside, peer, upload_folder, i, all_data, processed_files, skipped_files,
                   new_data_df, existing_df, new_entries, combined_df, excel_read, result>>

\* HandleError, were it to remove the whole upload folder.
HandleError_removeUploads ==
    /\ pc = "except"
    /\ upload_folder' = [id \in DOMAIN upload_folder |-> NoFiles]
    /\ result' = <<[success |-> FALSE, error |-> "Task processing error: " \o exception]>>
    /\ pc' = "done"
    /\ UNCHANGED <<inputs, outside, peer, i, all_data, processed_files, skipped_files, new_data_df,
                   existing_df, new_entries, combined_df, excel_read, exception>>

\* HandleError, were the exception raised again after the clean-up.
HandleError_reraise ==
    /\ pc = "except"
    /\ upload_folder' = [upload_folder EXCEPT ![session_id] = NoFiles]
    /\ pc' = "raised"
    /\ UNCHANGED <<inputs, outside, peer, i, all_data, processed_files, skipped_files, new_data_df,
                   existing_df, new_entries, combined_df, excel_read, exception, result>>

\* except Exception: remove the session directory and return the failure.
HandleError ==
    /\ pc = "except"
    /\ upload_folder' = [upload_folder EXCEPT ![session_id] = NoFiles]
    /\ result' = <<[success |-> FALSE, error |-> "Task processing error: " \o exception]>>
    /\ pc' = "done"
    /\ UNCHANGED <<inputs, outside, peer, i, all_data, processed_files, skipped_files, new_data_df,
                   existing_df, new_entries, combined_df, excel_read, exception>>

Next ==
    \/ ProcessFile
    \/ ReturnNoData
    \/ MergeData
    \/ ReadExcel
    \/ SaveResults
    \/ BuildResult
    \/ HandleError

Spec == Init /\ [][Next]_vars

(***************************************************************************)
(* The task as the result backend and the status endpoint show it.         *)
(***************************************************************************)
\* The meta of the last self.update_state(state='PROGRESS', ...).
task_info ==
    [progress |-> CASE pc = "extract" /\ i = 0 -> 0
                    [] pc = "extract" /\ i > 0 -> ((i - 1) * 80) \div Len(pdf_file_paths)
                    [] pc = "read_excel" -> 85
                    [] OTHER -> 95]

\* AsyncResult(task_id).state: SUCCESS once the function has returned,
\* FAILURE once an exception has left it.
task_state ==
    CASE pc = "done" -> "SUCCESS"
      [] pc = "raised" -> "FAILURE"
      [] OTHER -> "PROGRESS"

\* The response of GET /api/status/<task_id>.
get_task_status ==
    CASE task_state = "PROGRESS" ->
             [state |-> task_state, progress |-> task_info.progress]
      [] task_state = "SUCCESS" ->
             [state |-> task_state, result |-> result[1], progress |-> 100]
      [] OTHER ->
             [state |-> task_state, error |-> exception, progress |-> 0]

(***************************************************************************)
(* Two uploads whose tasks the worker pool runs at the same time.  The     *)
(* variables of the run hold the invocation that takes the steps; the      *)
(* other one waits in peer, and Switch hands the processor over.           *)
(***************************************************************************)
\* The local state of the invocation taking the steps.
Current ==
    [session_id |-> session_id,
     pdf_file_paths |-> pdf_file_paths,
     uploaded_excel |-> uploaded_excel,
     merge_duplicates |-> merge_duplicates,
     duplicate_check |-> duplicate_check,
     pc |-> pc,
     i |-> i,
     all_data |-> all_data,
     processed_files |-> processed_files,
     skipped_files |-> skipped_files,
     new_data_df |-> new_data_df,
     existing_df |-> existing_df,
     new_entries |-> new_entries,
     combined_df |-> combined_df,
     excel_read |-> excel_read,
     exception |-> exception,
     result |-> result]

\* The local state of a task that process_sds_files.delay has just queued.
Queued(id, upload) ==
    [session_id |-> id,
     pdf_file_paths |-> upload.pdf_file_paths,
     uploaded_excel |-> upload.uploaded_excel,
     merge_duplicates |-> upload.merge_duplicates,
     duplicate_check |-> upload.duplicate_check,
     pc |-> "extract",
     i |-> 0,
     all_data |-> <<>>,
     processed_files |-> 0,
     skipped_files |-> <<>>,
     new_data_df |-> NoFrame,
     existing_df |-> NoFrame,
     new_entries |-> NoFrame,
     combined_df |-> NoFrame,
     excel_read |-> FALSE,
     exception |-> "",
     result |-> <<>>]

\* The invocation `run` is the one taking the steps.
Resumed(run) ==
    /\ session_id = run.session_id
    /\ pdf_file_paths = run.pdf_file_paths
    /\ uploaded_excel = run.uploaded_excel
    /\ merge_duplicates = run.merge_duplicates
    /\ duplicate_check = run.duplicate_check
    /\ pc = run.pc
    /\ i = run.i
    /\ all_data = run.all_data
    /\ processed_files = run.processed_files
    /\ skipped_files = run.skipped_files
    /\ new_data_df = run.new_data_df
    /\ existing_df = run.existing_df
    /\ new_entries = run.new_entries
    /\ combined_df = run.combined_df
    /\ excel_read = run.excel_read
    /\ exception = run.exception
    /\ result = run.result

\* The other invocation takes the next steps; no file is touched.
Switch ==
    /\ peer # <<>>
    /\ peer' = <<Current>>
    /\ session_id' = peer[1].session_id
    /\ pdf_file_paths' = peer[1].pdf_file_paths
    /\ uploaded_excel' = peer[1].uploaded_excel
    /\ merge_duplicates' = peer[1].merge_duplicates
    /\ duplicate_check' = peer[1].duplicate_check
    /\ pc' = peer[1].pc
    /\ i' = peer[1].i
    /\ all_data' = peer[1].all_data
    /\ processed_files' = peer[1].processed_files
    /\ skipped_files' = peer[1].skipped_files
    /\ new_data_df' = peer[1].new_data_df
    /\ existing_df' = peer[1].existing_df
    /\ new_entries' = peer[1].new_entries
    /\ combined_df' = peer[1].combined_df
    /\ excel_read' = peer[1].excel_read
    /\ exception' = peer[1].exception
    /\ result' = peer[1].result
    /\ UNCHANGED <<upload_folder, outside>>

\* The batches of the two uploads: the same file names with other contents.
ConcurrentBatches ==
    { <<Pdf("a.pdf", FALSE, EthanolText, FALSE, BlankText)>>,
      <<Pdf("a.pdf", FALSE, WhitespaceText, TRUE, BlankText)>>,
      <<Pdf("B.pdf", FALSE, AcetoneText, FALSE, BlankText),
        Pdf("a.pdf", FALSE, UnknownText, FALSE, BlankText)>> }

ConcurrentSheets ==
    { [readable |-> TRUE, columns |-> COLUMNS, rows |-> <<ExistingRow(" A", "64-17-5 ")>>],
      UnreadableSheet }

ConcurrentUploads ==
    [pdf_file_paths : ConcurrentBatches,
     uploaded_excel : ConcurrentSheets,
     merge_duplicates : {TRUE},
     duplicate_check : {"none", "cas"}]

\* upload_files has saved the files of two uploads and queued their tasks.
InitTwo ==
    \E first, second \in ConcurrentUploads :
        /\ Resumed(Queued(FirstSession, first))
        /\ peer = <<Queued(SecondSession, second)>>
        /\ NoCalls
        /\ upload_folder =
               (FirstSession :> SavedFiles(first.pdf_file_paths, first.uploaded_excel))
            @@ (SecondSession :> SavedFiles(second.pdf_file_paths, second.uploaded_excel))

NextTwo ==
    \/ Next
    \/ Switch

SpecTwo == InitTwo /\ [][NextTwo]_vars

(***************************************************************************)
(* One document at a time, over all the sample texts: the task as it runs  *)
(* on an upload of a single PDF.                                           *)
(***************************************************************************)
ExtractionTexts ==
    { WhitespaceText, EthanolText, EthanolTlvText,
      AcetoneText, UnknownText, BadPressureText,
      LelUelText, LowerUpperExplosiveText, LflUflText,
      FlammableLimitsRangeText, ExplosiveLimitsRangeText, FlammabilityLimitsRangeText,
      ParenthesizedRangeText, ExplosiveRangeText, LelOnlyText,
      UpperFlammableOnlyText, LowerUpperFlammableText, NonCombustibleText,
      LelNotFlammableText, StaticDischargeText, NoStaticHazardText,
      HandlingText, HandlingStaticText, MmHgText,
      PaText, GenericMmHgText, GenericPaText,
      GenericAtmText, BracketCasText, BareCasText,
      LongCasText, TrailingDigitCasText }

\* upload_files has saved one PDF and a spreadsheet and started the task.
InitExtraction ==
    /\ \E text \in ExtractionTexts :
           pdf_file_paths = <<Pdf("a.pdf", FALSE, text, FALSE, BlankText)>>
    /\ uploaded_excel \in ConcurrentSheets
    /\ merge_duplicates \in BOOLEAN
    /\ duplicate_check = "cas"
    /\ session_id = FirstSession
    /\ upload_folder = (session_id :> SavedFiles(pdf_file_paths, uploaded_excel))
    /\ peer = <<>>
    /\ pc = "extract"
    /\ i = 0
    /\ all_data = <<>>
    /\ processed_files = 0
    /\ skipped_files = <<>>
    /\ new_data_df = NoFrame
    /\ existing_df = NoFrame
    /\ new_entries = NoFrame
    /\ combined_df = NoFrame
    /\ excel_read = FALSE
    /\ exception = ""
    /\ result = <<>>
    /\ NoCalls

SpecExtraction == InitExtraction /\ [][Next]_vars

(***************************************************************************)
(* clean_numeric_value on its own: it is called on a string, then again on *)
(* what it returned.                                                       *)
(***************************************************************************)
MaxValueLen == 4

MaxCalls == 2

ValueAlphabet == {"1", "2", ",", ".", "-", ":", " ", "a"}

RECURSIVE Join(_)
Join(chars) == IF chars = <<>> THEN "" ELSE Head(chars) \o Join(Tail(chars))

\* Longer arguments: thousands separators, comma decimals, leading
\* punctuation, no-data tokens in several cases, units.
NumericSamples ==
    { "1,234", "1,234.56", "1,234,567", "12,5", "0,789 g/cc", ": 12.5",
      "-- 7,5 C", " - 1,234 ppm", "NDA", "nda", "N/A", "n/a",
      "Not Available", "not available", "n/a 5", "approx. 1,5 - 2,5",
      "1.2.3", "1,,2", "12,", ",12", "1,2,3.4" }

NumericInputs ==
    NumericSamples
        \cup { Join(chars) : chars \in UNION { [1..n -> ValueAlphabet] : n \in 0..MaxValueLen } }

\* The variables of the task.
task ==
    <<inputs, peer, upload_folder, pc, i, all_data, processed_files, skipped_files,
      new_data_df, existing_df, new_entries, combined_df, excel_read,
      exception, result>>

\* No task runs.
NoRun ==
    /\ pdf_file_paths = <<>>
    /\ uploaded_excel = UnreadableSheet
    /\ merge_duplicates = FALSE
    /\ duplicate_check = "none"
    /\ session_id = FirstSession
    /\ peer = <<>>
    /\ pc = "idle"
    /\ i = 0
    /\ all_data = <<>>
    /\ processed_files = 0
    /\ skipped_files = <<>>
    /\ new_data_df = NoFrame
    /\ existing_df = NoFrame
    /\ new_entries = NoFrame
    /\ combined_df = NoFrame
    /\ excel_read = FALSE
    /\ exception = ""
    /\ result = <<>>

\* No upload has been made and no task runs.
NoTask ==
    /\ NoRun
    /\ upload_folder = (session_id :> NoFiles)

InitNormalize ==
    /\ NoTask
    /\ NotExtracting
    /\ NoCleanup
    /\ value_str \in NumericInputs
    /\ cleaned = <<>>

\* clean_numeric_value(value_str), then clean_numeric_value of the result.
CleanNumericValue ==
    /\ Len(cleaned) < MaxCalls
    /\ cleaned' = Append(cleaned,
                      clean_numeric_value(IF cleaned = <<>> THEN value_str
                                          ELSE cleaned[Len(cleaned)]))
    /\ UNCHANGED <<task, value_str, pdf_arg, extracted, now, stat, tmp_dir, cleanup>>

NextNormalize == CleanNumericValue

SpecNormalize == InitNormalize /\ [][NextNormalize]_vars

(***************************************************************************)
(* extract_pdf_text on its own, on a PDF that each extractor reads or      *)
(* fails to read.                                                          *)
(***************************************************************************)
PageTexts == {BlankText, WhitespaceText, EthanolText, AcetoneText, UnknownText, LelUelText}

PdfFiles ==
    { Pdf("a.pdf", plumber_raises, plumber_text, pypdf2_raises, pypdf2_text) :
          plumber_raises \in BOOLEAN, plumber_text \in PageTexts,
          pypdf2_raises \in BOOLEAN, pypdf2_text \in PageTexts }

InitExtractText ==
    /\ NoTask
    /\ NotCleaning
    /\ NoCleanup
    /\ \E pdf_file \in PdfFiles : pdf_arg = <<pdf_file>>
    /\ extracted = <<>>

\* extract_pdf_text(pdf_arg), from the call to its end.
ExtractPdfText ==
    /\ pdf_arg # <<>>
    /\ extracted = <<>>
    /\ extracted' = <<extract_pdf_text_run(pdf_arg[1])>>
    /\ UNCHANGED <<task, value_str, cleaned, pdf_arg, now, stat, tmp_dir, cleanup>>

NextExtractText == ExtractPdfText

SpecExtractText == InitExtractText /\ [][NextExtractText]_vars

(***************************************************************************)
(* cleanup_old_files on an upload folder with session directories of       *)
(* several ages.  Times are in hours.                                      *)
(***************************************************************************)
MaxSessions == 2

\* timedelta(hours=24)
MaxAgeHours == 24

ClockAtCleanup == 100

SessionName(n) == "session-" \o Char("123456789", n)

SessionIds == {SessionName(n) : n \in 1..MaxSessions}

\* The moments an entry can date from: a little more than a day ago, a day
\* ago to the hour, a little less.
Moments == {ClockAtCleanup - MaxAgeHours - 1, ClockAtCleanup - MaxAgeHours,
            ClockAtCleanup - MaxAgeHours + 1}

\* What the file system says of a directory: when it was made, what
\* os.path.getctime returns (on Linux the last change of the inode, never
\* before the creation) or that it raises.
DirStats ==
    { st \in [isdir : {TRUE}, created : Moments, ctime : Moments, getctime_raises : BOOLEAN] :
          st.created <= st.ctime }

\* A plain file that lies in UPLOAD_FOLDER.
StrayFileStat ==
    [isdir |-> FALSE, created |-> ClockAtCleanup - MaxAgeHours - 1,
     ctime |-> ClockAtCleanup - MaxAgeHours - 1, getctime_raises |-> FALSE]

ExtractedTmpFile == "extracted_msds_1.xlsx"

OtherTmpFile == "report.xlsx"

TmpFileStats ==
    { st \in [isdir : {FALSE}, created : Moments \ {ClockAtCleanup - MaxAgeHours},
              ctime : Moments \ {ClockAtCleanup - MaxAgeHours}, getctime_raises : BOOLEAN] :
          st.created = st.ctime }

\* The directory of a finished upload.
KeptFiles == SavedFiles(<<Pdf("a.pdf", FALSE, EthanolText, FALSE, BlankText)>>, LegacySheet)

startswith(s, prefix) ==
    Len(s) >= Len(prefix) /\ SubSeq(s, 1, Len(prefix)) = prefix

\* cleanup_old_files.delay() has queued the task.
InitCleanup ==
    /\ NoRun
    /\ NotCleaning
    /\ NotExtracting
    /\ now = ClockAtCleanup
    /\ upload_folder = [id \in SessionIds |-> KeptFiles]
    /\ tmp_dir = {ExtractedTmpFile, OtherTmpFile}
    /\ \E session_stats \in [SessionIds -> DirStats \cup {StrayFileStat}],
          tmp_stat \in TmpFileStats :
           stat = session_stats @@ (ExtractedTmpFile :> tmp_stat) @@ (OtherTmpFile :> StrayFileStat)
    /\ cleanup = <<[pc |-> "queued", cutoff_time |-> 0, listing |-> {},
                   cleaned_sessions |-> 0, cleaned_files |-> 0, result |-> <<>>]>>

\* The variables that cleanup_old_files leaves alone.
not_cleanup ==
    <<inputs, peer, pc, i, all_data, processed_files, skipped_files,
      new_data_df, existing_df, new_entries, combined_df, excel_read,
      exception, result, value_str, cleaned, pdf_arg, extracted, now, stat>>

\* cutoff_time and os.listdir(UPLOAD_FOLDER).
CleanupStart ==
    /\ cleanup # <<>>
    /\ cleanup[1].pc = "queued"
    /\ cleanup' = <<[cleanup[1] EXCEPT !.pc = "sessions",
                                       !.cutoff_time = now - MaxAgeHours,
                                       !.listing = DOMAIN upload_folder]>>
    /\ UNCHANGED <<not_cleanup, upload_folder, tmp_dir>>

\* CleanSession, were an error to end the loop over the sessions.
CleanSession_stopOnError ==
    /\ cleanup # <<>>
    /\ cleanup[1].pc = "sessions"
    /\ \E id \in cleanup[1].listing :
           LET removes == /\ stat[id].isdir
                          /\ ~stat[id].getctime_raises
                          /\ stat[id].ctime < cleanup[1].cutoff_time
               fails == stat[id].isdir /\ stat[id].getctime_raises
           IN  /\ upload_folder' = IF removes
                                   THEN [upload_folder EXCEPT ![id] = NoFiles]
                                   ELSE upload_folder
               /\ cleanup' = <<[cleanup[1] EXCEPT
                                  !.listing = IF fails THEN {} ELSE @ \ {id},
                                  !.cleaned_sessions = IF removes THEN @ + 1 ELSE @]>>
    /\ UNCHANGED <<not_cleanup, tmp_dir>>

\* One iteration of the loop over os.listdir(UPLOAD_FOLDER), in the order
\* that os.listdir happens to give.
CleanSession ==
    /\ cleanup # <<>>
    /\ cleanup[1].pc = "sessions"
    /\ \E id \in cleanup[1].listing :
           LET removes == /\ stat[id].isdir
                          /\ ~stat[id].getctime_raises
                          /\ stat[id].ctime < cleanup[1].cutoff_time
           IN  /\ upload_folder' = IF removes
                                   THEN [upload_folder EXCEPT ![id] = NoFiles]
                                   ELSE upload_folder
               /\ cleanup' = <<[cleanup[1] EXCEPT
                                  !.listing = @ \ {id},
                                  !.cleaned_sessions = IF removes THEN @ + 1 ELSE @]>>
    /\ UNCHANGED <<not_cleanup, tmp_dir>>

\* The loop over /tmp and the return.
CleanTmpFiles ==
    /\ cleanup # <<>>
    /\ cleanup[1].pc = "sessions"
    /\ cleanup[1].listing = {}
    /\ LET removed == { filename \in tmp_dir :
                           /\ startswith(filename, "extracted_msds_")
                           /\ ~stat[filename].getctime_raises
                           /\ stat[filename].ctime < cleanup[1].cutoff_time }
       IN  /\ tmp_dir' = tmp_dir \ removed
           /\ cleanup' = <<[cleanup[1] EXCEPT
                              !.pc = "done",
                              !.cleaned_files = Cardinality(removed),
                              !.result = <<[success |-> TRUE,
                                            cleaned_sessions |-> cleanup[1].cleaned_sessions,
                                            cleaned_files |-> Cardinality(removed)]>>]>>
    /\ UNCHANGED <<not_cleanup, upload_folder>>

NextCleanup ==
    \/ CleanupStart
    \/ CleanSession
    \/ CleanTmpFiles

SpecCleanup == InitCleanup /\ [][NextCleanup]_vars

(***************************************************************************)
(* Properties.                                                             *)
(***************************************************************************)
Norm(s) == lower(strip(s))

LoopDone == i = Len(pdf_file_paths)

Merged == pc \in {"read_excel", "save", "result", "except", "done"} /\ all_data # <<>>

Reconciled == pc \in {"save", "result", "except", "done"} /\ all_data # <<>>

Returned == pc = "done"

\* row matches the uploaded spreadsheet on the CAS Number, the sentinel apart.
MatchesCas(row) ==
    /\ Norm(row["CAS Number"]) # "nda"
    /\ \E k \in 1..Len(uploaded_excel.rows) :
           Norm(uploaded_excel.rows[k]["CAS Number"]) = Norm(row["CAS Number"])

\* row matches the uploaded spreadsheet on the Description.
MatchesDesc(row) ==
    \E k \in 1..Len(uploaded_excel.rows) :
        Norm(uploaded_excel.rows[k]["Description"]) = Norm(row["Description"])

BothMode ==
    /\ Reconciled
    /\ duplicate_check = "both"
    /\ uploaded_excel.readable
    /\ Len(uploaded_excel.rows) > 0

MatchesBoth(row) == MatchesCas(row) /\ MatchesDesc(row)

MatchesEither(row) == MatchesCas(row) \/ MatchesDesc(row)

\* C1 as claimed: in mode both, against a non-empty existing dataset, the
\* new records excluded are exactly those that match on both the CAS Number
\* and the Description; a record matching on one criterion only is kept.
C1_Original ==
    BothMode =>
        new_entries.rows = SelectSeq(new_data_df.rows, LAMBDA row : ~MatchesBoth(row))

\* C1 as amended: in mode both, against a non-empty existing dataset, the new
\* records excluded are exactly those that match on the CAS Number or on the
\* Description; a record is kept only when it is new on both criteria.
C1_Amended ==
    BothMode =>
        new_entries.rows = SelectSeq(new_data_df.rows, LAMBDA row : ~MatchesEither(row))

\* A record with an existing CAS Number and a new Description is excluded.
C1_Witness ==
    /\ BothMode
    /\ \E k \in 1..Len(new_data_df.rows) :
           /\ MatchesCas(new_data_df.rows[k])
           /\ ~MatchesDesc(new_data_df.rows[k])
           /\ new_data_df.rows[k] \notin Range(new_entries.rows)

\* C2: when at least one document produced a record, the task returns a
\* success result carrying the four counts; a failure is returned only when
\* no document produced data.
C2_SuccessWithCounts ==
    (Returned /\ all_data # <<>>) =>
        /\ result[1].success
        /\ result[1].totalFiles = Len(pdf_file_paths)
        /\ result[1].processedFiles = processed_files
        /\ result[1].newEntriesAdded = Len(new_entries.rows)
        /\ result[1].totalEntriesInOutput = Len(combined_df.rows)

\* What the loop is to do with a document: "blank" when the extracted text
\* is empty, "error" when the processing raises, else "record" and the record.
Outcome(pdf) ==
    LET text == extract_pdf_text(pdf)
        parsed == parse_sds_data(text, pdf.filename)
    IN  IF strip(text) = "" THEN [kind |-> "blank"]
        ELSE IF parsed.raised THEN [kind |-> "error"]
        ELSE [kind |-> "record", data |-> parsed.data]

\* The outcomes of a sequence of documents.
RECURSIVE OutcomesOf(_)
OutcomesOf(pdfs) ==
    IF pdfs = <<>> THEN <<>>
    ELSE <<Outcome(Head(pdfs))>> \o OutcomesOf(Tail(pdfs))

IsBlank(pdf) == strip(extract_pdf_text(pdf)) = ""

IsSkipped(pdf) == Outcome(pdf).kind # "record"

AllBlank == \A k \in 1..Len(pdf_file_paths) : IsBlank(pdf_file_paths[k])

\* C3: when every document yields empty text the task returns a failure, no
\* output dataset is built or written, and the existing spreadsheet is
\* neither read nor changed.
C3_EmptyBatch ==
    (Returned /\ AllBlank) =>
        /\ ~result[1].success
        /\ combined_df = NoFrame
        /\ session_dir.output = <<>>
        /\ ~excel_read
        /\ session_dir.excel = <<uploaded_excel>>

C3_Witness == Returned /\ AllBlank /\ uploaded_excel.readable /\ Len(uploaded_excel.rows) > 0

\* C4: a document with empty text or whose processing raises gets an entry
\* (file name and reason) in the skipped list and does not end the loop:
\* the loop handles every document, the records of the other documents are
\* all collected, and all of them enter the merge.
C4_SkipDoesNotAbort ==
    LET outcomes == OutcomesOf(SubSeq(pdf_file_paths, 1, i))
        skipped == SelectSeq([k \in 1..i |-> k], LAMBDA k : outcomes[k].kind # "record")
        kept == SelectSeq([k \in 1..i |-> k], LAMBDA k : outcomes[k].kind = "record")
    IN  /\ pc # "extract" => LoopDone
        /\ Len(skipped_files) = Len(skipped)
        /\ \A k \in 1..Len(skipped_files) :
               LET filename == pdf_file_paths[skipped[k]].filename
               IN  /\ SubSeq(skipped_files[k], 1, Len(filename) + 2) = filename \o " ("
                   /\ Len(skipped_files[k]) > Len(filename) + 3
        /\ all_data = [k \in 1..Len(kept) |-> outcomes[kept[k]].data]
        /\ Merged =>
               \A k \in 1..Len(all_data) :
                   \E j \in 1..Len(new_data_df.rows) :
                       new_data_df.rows[j]["CAS Number"] = all_data[k]["CAS Number"]

\* The first document was skipped and the second one was reconciled.
C4_Witness ==
    /\ Reconciled
    /\ Len(pdf_file_paths) >= 2
    /\ IsSkipped(pdf_file_paths[1])
    /\ ~IsSkipped(pdf_file_paths[2])
    /\ Len(combined_df.rows) > 0

NonBlankDocs == {k \in 1..Len(pdf_file_paths) : ~IsBlank(pdf_file_paths[k])}

\* C5: every document with non-empty text yields exactly one record, so that
\* after the loop only the documents with empty text are in the skipped list.
C5_OneRecordPerText ==
    LoopDone =>
        /\ Len(all_data) = Cardinality(NonBlankDocs)
        /\ Len(skipped_files) = Len(pdf_file_paths) - Cardinality(NonBlankDocs)

\* C6: when the existing spreadsheet cannot be loaded, the output is exactly
\* the merged new records, none filtered, all counted as added, and the task
\* returns a success.
C6_UnreadableFallback ==
    (Returned /\ all_data # <<>> /\ ~uploaded_excel.readable) =>
        /\ combined_df = new_data_df
        /\ new_entries = new_data_df
        /\ result[1].success
        /\ result[1].newEntriesAdded = Len(new_data_df.rows)

\* xs is ys with some elements left out, the others in the same order.
RECURSIVE IsSubsequence(_, _)
IsSubsequence(xs, ys) ==
    IF xs = <<>> THEN TRUE
    ELSE IF ys = <<>> THEN FALSE
    ELSE IF Head(xs) = Head(ys) THEN IsSubsequence(Tail(xs), Tail(ys))
    ELSE IsSubsequence(xs, Tail(ys))

\* C7: the reconciled dataset is the rows of the existing spreadsheet, in
\* their order and with their values, followed by the surviving new records
\* in the order they had among the new records, whatever the options.
C7_ExistingFirst ==
    (Reconciled /\ uploaded_excel.readable) =>
        LET n == Len(uploaded_excel.rows)
        IN  /\ Len(combined_df.rows) = n + Len(new_entries.rows)
            /\ \A k \in 1..n :
                   \A col \in DOMAIN uploaded_excel.rows[k] :
                       combined_df.rows[k][col] = uploaded_excel.rows[k][col]
            /\ SubSeq(combined_df.rows, n + 1, Len(combined_df.rows)) = new_entries.rows
            /\ IsSubsequence(new_entries.rows, new_data_df.rows)

\* Two existing rows, a new record filtered out and a new record appended.
C7_Witness ==
    /\ Reconciled
    /\ uploaded_excel.readable
    /\ Len(uploaded_excel.rows) = 2
    /\ Len(new_entries.rows) = 1
    /\ Len(new_data_df.rows) = 2

NoDataValues == {"", "NDA", "n/a"}

HasCas(row) == Norm(row["CAS Number"]) \notin {"nda", "", "n/a"}

CasNumbers == {strip(all_data[k]["CAS Number"]) : k \in {j \in 1..Len(all_data) : HasCas(all_data[j])}}

\* The extracted records with CAS Number cas, in input order.
Group(cas) == SelectSeq(all_data, LAMBDA row : strip(row["CAS Number"]) = cas)

\* The value of the first record of the group whose value for col is not in
\* absent; the value of the first record when there is none.
FirstPresent(group, col, absent) ==
    LET present == {k \in 1..Len(group) : group[k][col] \notin absent}
    IN  IF present = {} THEN group[1][col]
        ELSE group[CHOOSE k \in present : \A j \in present : k <= j][col]

MergedRows(cas) == SelectSeq(new_data_df.rows, LAMBDA row : strip(row["CAS Number"]) = cas)

MergedAs(absent) ==
    \A cas \in CasNumbers :
        /\ Len(MergedRows(cas)) = 1
        /\ \A col \in Range(COLUMNS) :
               MergedRows(cas)[1][col] = FirstPresent(Group(cas), col, absent)

\* C8 as claimed: with mergeDuplicates the records of one CAS Number become
\* one record, and each of its fields is the value of the first record of the
\* group whose value is not the sentinel "NDA" ("NDA" if there is none).
C8_Original == (Merged /\ merge_duplicates) => MergedAs({"NDA"})

\* C8 as amended: with mergeDuplicates the records of one CAS Number become
\* one record, and each of its fields is the value of the first record of the
\* group whose value is none of "NDA", "" and "n/a", or the value of the
\* first record of the group when there is none.
C8_Amended == (Merged /\ merge_duplicates) => MergedAs(NoDataValues)

\* Two records of one CAS Number were merged: the density missing in the
\* first came from the second, the description of the first was kept.
C8_Witness ==
    /\ Merged
    /\ merge_duplicates
    /\ \E cas \in CasNumbers :
           /\ Len(Group(cas)) = 2
           /\ Group(cas)[1]["Density (g/cc)"] = "NDA"
           /\ Group(cas)[2]["Density (g/cc)"] # "NDA"
           /\ Group(cas)[1]["Description"] # Group(cas)[2]["Description"]
           /\ MergedRows(cas)[1]["Density (g/cc)"] = Group(cas)[2]["Density (g/cc)"]

\* C9: with mergeDuplicates the records without CAS Number are never merged:
\* they are in the merge output unchanged and in order, and the output has
\* one record per distinct CAS Number plus one per record without one.
C9_NoCasKeptApart ==
    (Merged /\ merge_duplicates) =>
        /\ SelectSeq(new_data_df.rows, LAMBDA row : ~HasCas(row))
               = SelectSeq(all_data, LAMBDA row : ~HasCas(row))
        /\ Len(new_data_df.rows)
               = Cardinality(CasNumbers)
                 + Len(SelectSeq(all_data, LAMBDA row : ~HasCas(row)))

\* Two records without CAS Number and with the same Description went through
\* the merge.
C9_Witness ==
    /\ Merged
    /\ merge_duplicates
    /\ Len(all_data) >= 2
    /\ ~HasCas(all_data[1])
    /\ ~HasCas(all_data[2])
    /\ all_data[1]["Description"] = all_data[2]["Description"]

\* C10: in mode cas the new records excluded are exactly those whose CAS
\* Number is, the sentinel apart, the CAS Number of an existing row: a new
\* record with CAS Number "NDA" survives also when existing rows have "NDA".
C10_CasMode ==
    (Reconciled /\ duplicate_check = "cas" /\ uploaded_excel.readable) =>
        /\ new_entries.rows = SelectSeq(new_data_df.rows, LAMBDA row : ~MatchesCas(row))
        /\ \A k \in 1..Len(new_data_df.rows) :
               new_data_df.rows[k]["CAS Number"] = "NDA"
                   => new_data_df.rows[k] \in Range(new_entries.rows)

\* A record with an existing CAS Number was excluded and a record with "NDA"
\* survived next to an existing row with "NDA".
C10_Witness ==
    /\ Reconciled
    /\ duplicate_check = "cas"
    /\ uploaded_excel.readable
    /\ \E k \in 1..Len(uploaded_excel.rows) : uploaded_excel.rows[k]["CAS Number"] = "NDA"
    /\ \E k \in 1..Len(new_entries.rows) : new_entries.rows[k]["CAS Number"] = "NDA"
    /\ Len(new_entries.rows) < Len(new_data_df.rows)

\* C11: in mode description the new records excluded are exactly those whose
\* trimmed, case-insensitive Description is that of an existing row; the CAS
\* Number plays no part: a record with an existing CAS Number and a new
\* Description survives.
C11_DescriptionMode ==
    (Reconciled /\ duplicate_check = "description" /\ uploaded_excel.readable) =>
        new_entries.rows = SelectSeq(new_data_df.rows, LAMBDA row : ~MatchesDesc(row))

\* A record with an existing CAS Number and a new Description survived, and a
\* record with a new CAS Number and an existing Description, written in
\* another case, was excluded.
C11_Witness ==
    /\ Reconciled
    /\ duplicate_check = "description"
    /\ uploaded_excel.readable
    /\ \E k \in 1..Len(new_data_df.rows) :
           /\ MatchesCas(new_data_df.rows[k])
           /\ ~MatchesDesc(new_data_df.rows[k])
           /\ new_data_df.rows[k] \in Range(new_entries.rows)
    /\ \E k \in 1..Len(new_data_df.rows) :
           /\ ~MatchesCas(new_data_df.rows[k])
           /\ MatchesDesc(new_data_df.rows[k])
           /\ \A j \in 1..Len(uploaded_excel.rows) :
                  uploaded_excel.rows[j]["Description"] # new_data_df.rows[k]["Description"]
           /\ new_data_df.rows[k] \notin Range(new_entries.rows)

\* The invocations in flight: the one taking the steps and the waiting one.
Invocations == {Current} \cup Range(peer)

\* The records a run of the task on its own extracts from the documents.
AloneRecords(run) ==
    LET outcomes == OutcomesOf(run.pdf_file_paths)
        kept == SelectSeq(outcomes, LAMBDA outcome : outcome.kind = "record")
    IN  [k \in 1..Len(kept) |-> kept[k].data]

\* The dataset a run of the task on its own builds from its inputs.
AloneDataset(run) ==
    LET new == Reindex(EnsureColumns(DataFrame(
                   merge_by_cas_number_optional(AloneRecords(run), run.merge_duplicates))))
        sheet == run.uploaded_excel
        existing == Reindex(EnsureColumns([columns |-> sheet.columns, rows |-> sheet.rows]))
        entries == check_for_duplicates(existing, new, run.duplicate_check)
    IN  IF ~sheet.readable THEN new
        ELSE IF Len(entries.rows) > 0 THEN Concat(existing, entries)
        ELSE existing

\* What the files of a session hold while a run of the task on its own is
\* at position run.pc.
AloneFiles(run) ==
    IF run.pc \in {"extract", "read_excel", "save"}
            \/ (run.pc = "done" /\ run.all_data = <<>>)
    THEN SavedFiles(run.pdf_file_paths, run.uploaded_excel)
    ELSE IF run.pc \in {"result", "except"}
    THEN [SavedFiles(run.pdf_file_paths, run.uploaded_excel)
             EXCEPT !.output = <<AloneDataset(run)>>]
    ELSE NoFiles

\* The invocation has what a run on its own has at the same position.
AsAlone(run) ==
    /\ run.all_data = AloneRecords([run EXCEPT !.pdf_file_paths = SubSeq(@, 1, run.i)])
    /\ (run.pc \in {"save", "result", "except", "done"} /\ run.all_data # <<>>)
           => run.combined_df = AloneDataset(run)
    /\ upload_folder[run.session_id] = AloneFiles(run)

\* A step writes under the directory of its own session only.
OwnDirectoryOnly ==
    \A id \in DOMAIN upload_folder :
        id # session_id => upload_folder'[id] = upload_folder[id]

\* C12: two invocations with different session ids, interleaved in any order,
\* do not interfere: every step changes files of its own session directory
\* only, and each invocation extracts the records, builds the dataset and
\* leaves the files that it does when it runs alone.
C12_NoInterference ==
    /\ [](\A run \in Invocations : AsAlone(run))
    /\ [][OwnDirectoryOnly]_vars

\* Both invocations are under way: one has saved its dataset, the other has
\* built another dataset and not yet saved it.
C12_Witness ==
    /\ peer # <<>>
    /\ pc = "result"
    /\ peer[1].pc = "save"
    /\ session_dir.output = <<combined_df>>
    /\ upload_folder[peer[1].session_id].output = <<>>
    /\ peer[1].combined_df # combined_df
    /\ Len(peer[1].combined_df.rows) > 0

\* The frame has exactly the columns of the schema, in the order of the
\* schema, and each of its rows has a value for each of them.
HasSchema(df) ==
    /\ df.columns = COLUMNS
    /\ \A k \in 1..Len(df.rows) : DOMAIN df.rows[k] = Range(COLUMNS)

\* C13: every extracted record has exactly the 18 fields of the schema, in
\* the order of the schema, each with a value; and the output dataset has
\* exactly these 18 columns in this order, whether new records were appended
\* to the existing rows, none survived, or the spreadsheet could not be read.
C13_Schema ==
    /\ Len(COLUMNS) = 18
    /\ Cardinality(Range(COLUMNS)) = 18
    /\ all_data # <<>> => RecordKeys = COLUMNS
    /\ \A k \in 1..Len(all_data) : DOMAIN all_data[k] = Range(RecordKeys)
    /\ Reconciled => HasSchema(combined_df)
    /\ session_dir.output # <<>> => HasSchema(session_dir.output[1])

\* No new record survived and the dataset written is that of a spreadsheet
\* that came with two of the columns, in another order.
C13_Witness ==
    /\ pc = "result"
    /\ uploaded_excel = LegacySheet
    /\ Len(new_data_df.rows) > 0
    /\ Len(new_entries.rows) = 0
    /\ session_dir.output = <<combined_df>>
    /\ Len(combined_df.rows) = Len(LegacySheet.rows)

\* C14: in mode none every new record that comes out of the merge survives
\* the duplicate filtering, whatever the existing spreadsheet holds.
C14_NoneMode ==
    (Reconciled /\ duplicate_check = "none") =>
        /\ new_entries = new_data_df
        /\ uploaded_excel.readable =>
               combined_df.rows = existing_df.rows \o new_data_df.rows

\* In mode none a record that has the CAS Number of an existing row and the
\* Description of an existing row survived.
C14_Witness ==
    /\ Reconciled
    /\ duplicate_check = "none"
    /\ uploaded_excel.readable
    /\ \E k \in 1..Len(new_data_df.rows) :
           /\ MatchesCas(new_data_df.rows[k])
           /\ MatchesDesc(new_data_df.rows[k])
           /\ new_data_df.rows[k] \in Range(new_entries.rows)

\* C15: without mergeDuplicates the merge step gives back the extracted
\* records as they are: the same records with the same values, in the same
\* order, as many as were extracted, also when records share a CAS Number.
C15_MergeOff ==
    (Merged /\ ~merge_duplicates) =>
        /\ new_data_df.rows = all_data
        /\ merge_by_cas_number_optional(all_data, merge_duplicates) = all_data

\* Two records with the same CAS Number went through the merge step without
\* mergeDuplicates and are both in the new data.
C15_Witness ==
    /\ Merged
    /\ ~merge_duplicates
    /\ Len(all_data) = 2
    /\ HasCas(all_data[1])
    /\ all_data[1]["CAS Number"] = all_data[2]["CAS Number"]
    /\ all_data[1] # all_data[2]
    /\ Len(new_data_df.rows) = 2

\* The task has run on one document and has extracted its record.
OneRecord == Len(pdf_file_paths) = 1 /\ Len(all_data) = 1

\* The text of the one document, and what the patterns find in it.
TheText == extract_pdf_text(pdf_file_paths[1])

Found == Matches(TheText)

FlammableLimits == all_data[1]["Flammable Limits by Volume (LEL, UEL)"]

\* The pattern lists, from the first to the n-th pattern, that find something.
Finders(ms, n) == {k \in 1..n : ms[k] # <<>>}

First(ks) == CHOOSE k \in ks : \A j \in ks : k <= j

\* The groups of the first of the first n pair patterns that matches.
PairOf(n) == Found.flammable[First(Finders(Found.flammable, n))][1]

LelOf == Found.lel[First(Finders(Found.lel, Len(Found.lel)))][1]

UelOf == Found.uel[First(Finders(Found.uel, Len(Found.uel)))][1]

PairFound == Finders(Found.flammable, PairPatterns) # {}

LelFound == Finders(Found.lel, Len(Found.lel)) # {}

UelFound == Finders(Found.uel, Len(Found.uel)) # {}

\* C16: the flammable limits are decided in this order: a match of the search
\* for a LEL/UEL pair gives "LEL: X%, UEL: Y%"; otherwise the LEL and the UEL
\* are searched one by one and what is found of them is reported; only when
\* neither is found a non-flammability statement gives "Non-flammable"; and
\* otherwise the result is "NDA".  A text with a limit and a non-flammability
\* statement gives the limit.
C16_DecisionOrder ==
    OneRecord =>
        /\ PairFound =>
               FlammableLimits = "LEL: " \o PairOf(PairPatterns)[1]
                                    \o "%, UEL: " \o PairOf(PairPatterns)[2] \o "%"
        /\ (~PairFound /\ LelFound /\ UelFound) =>
               FlammableLimits = "LEL: " \o LelOf \o "%, UEL: " \o UelOf \o "%"
        /\ (~PairFound /\ LelFound /\ ~UelFound) =>
               FlammableLimits = "LEL: " \o LelOf \o "%"
        /\ (~PairFound /\ ~LelFound /\ UelFound) =>
               FlammableLimits = "UEL: " \o UelOf \o "%"
        /\ (~PairFound /\ ~LelFound /\ ~UelFound /\ Found.non_flammable) =>
               FlammableLimits = "Non-flammable"
        /\ (~PairFound /\ ~LelFound /\ ~UelFound /\ ~Found.non_flammable) =>
               FlammableLimits = "NDA"
        /\ (Found.non_flammable /\ (PairFound \/ LelFound \/ UelFound)) =>
               FlammableLimits # "Non-flammable"

\* A text with a LEL and a non-flammability statement gave the LEL.
C16_Witness ==
    /\ OneRecord
    /\ Found.non_flammable
    /\ LelFound
    /\ ~UelFound
    /\ FlammableLimits = "LEL: 2.1%"

\* C17: every pair form of flammable_patterns (the first ten patterns: LEL
\* and UEL, lower and upper explosive limit, LFL and UFL, the labelled
\* ranges, the parenthesized ranges, the table form and the flammable or
\* explosive range) is tried: a text in which one of them matches gives
\* "LEL: X%, UEL: Y%" with the two numbers of the first form that matches.
C17_AllPairForms ==
    (OneRecord /\ Finders(Found.flammable, 10) # {}) =>
        FlammableLimits = "LEL: " \o PairOf(10)[1] \o "%, UEL: " \o PairOf(10)[2] \o "%"

StaticHazard == all_data[1]["Static Hazard"]

\* C18: the static hazard is decided in three tiers: a no-static-hazard
\* phrase gives "No", also when a static phrase is in the text; otherwise a
\* static or electrostatic phrase gives "Yes"; otherwise the header of a
\* handling or storage section gives "No"; otherwise the result is "NDA".
C18_StaticTiers ==
    OneRecord =>
        /\ Found.no_static => StaticHazard = "No"
        /\ (~Found.no_static /\ Found.static) => StaticHazard = "Yes"
        /\ (~Found.no_static /\ ~Found.static /\ Found.handling) => StaticHazard = "No"
        /\ (~Found.no_static /\ ~Found.static /\ ~Found.handling) => StaticHazard = "NDA"

\* A text with a no-static-hazard phrase and a static phrase gave "No".
C18_Witness ==
    /\ OneRecord
    /\ Found.no_static
    /\ Found.static
    /\ StaticHazard = "No"

EndsWith(s, suffix) ==
    Len(s) >= Len(suffix) /\ SubSeq(s, Len(s) - Len(suffix) + 1, Len(s)) = suffix

\* The unit written after the number at the end of the text.
UnitOf(text) ==
    IF EndsWith(text, "atm") THEN "atm"
    ELSE IF EndsWith(text, "mmHg") THEN "mmHg"
    ELSE IF EndsWith(text, "Pa") THEN "Pa"
    ELSE "none"

VapourPressure == all_data[1]["Vapour Pressure (in mmHg)"]

\* The number the first matching pressure pattern finds, cleaned.
PressureValue ==
    clean_numeric_value(Found.vp[First(Finders(Found.vp, Len(Found.vp)))][1])

\* C19: the vapour pressure is converted by the unit of the value that was
\* matched, whichever pattern matched it, the generic pressure pattern
\* included: atm times 760, Pa times 0.00750062, mmHg as it is.
C19_UnitConversion ==
    (OneRecord /\ Finders(Found.vp, Len(Found.vp)) # {} /\ UnitOf(TheText) # "none") =>
        VapourPressure =
            IF UnitOf(TheText) = "atm" THEN ConvertAtm(PressureValue)
            ELSE IF UnitOf(TheText) = "Pa" THEN ConvertPa(PressureValue)
            ELSE PressureValue

AllDigits(s) == Len(s) > 0 /\ \A k \in 1..Len(s) : IsDigit(Char(s, k))

\* s is 2 to 7 digits, a hyphen, 2 digits, a hyphen and 1 digit.
IsCasNumber(s) ==
    /\ Len(s) \in 7..12
    /\ AllDigits(SubSeq(s, 1, Len(s) - 5))
    /\ Char(s, Len(s) - 4) = "-"
    /\ AllDigits(SubSeq(s, Len(s) - 3, Len(s) - 2))
    /\ Char(s, Len(s) - 1) = "-"
    /\ IsDigit(Char(s, Len(s)))

\* What the CAS patterns capture in the text of the k-th document.
CasCaptures(k) ==
    LET found == Matches(extract_pdf_text(pdf_file_paths[k])).cas
    IN  {found[j][1] : j \in Finders(found, Len(found))}

\* C20: the CAS Number of every extracted record is "NDA" or 2 to 7 digits,
\* a hyphen, 2 digits, a hyphen and 1 digit: the capture of a CAS pattern as
\* it stands in the text, hyphens and all, for a labelled number and for a
\* bare one.
C20_CasForm ==
    \A k \in 1..Len(all_data) :
        LET cas == all_data[k]["CAS Number"]
        IN  /\ cas = "NDA" \/ IsCasNumber(cas)
            /\ OneRecord =>
                   IF CasCaptures(1) = {} THEN cas = "NDA" ELSE cas \in CasCaptures(1)

\* A bare number, found by the last pattern only, is the CAS Number.
C20_Witness ==
    /\ OneRecord
    /\ Finders(Found.cas, Len(Found.cas)) = {Len(Found.cas)}
    /\ all_data[1]["CAS Number"] = "67-64-1"

\* C21: numeric normalization is idempotent: a second call of
\* clean_numeric_value, on what the first call returned, returns it unchanged,
\* for strings with thousands separators, comma decimals, leading punctuation
\* and no-data tokens alike.
C21_Idempotent ==
    \A k \in 2..Len(cleaned) : cleaned[k] = cleaned[k - 1]

\* The second call has returned, on a string with a comma that the first
\* call rewrote into a number.
C21_Witness ==
    /\ Len(cleaned) >= 2
    /\ \E k \in 1..Len(value_str) : Char(value_str, k) = ","
    /\ cleaned[1] \notin {value_str, "NDA"}
    /\ \E k \in 1..Len(cleaned[1]) : Char(cleaned[1], k) = "."

\* C22: text extraction opens the primary extractor first and the secondary
\* one only when the primary raised or gave blank text; what it returns is a
\* text with non-blank content or the empty string, never an exception, and
\* it is the text that process_sds_files works on.
C22_PrimaryThenFallback ==
    extracted # <<>> =>
        LET pdf_file == pdf_arg[1]
            ended == extracted[1]
            primary_usable == ~pdf_file.plumber_raises /\ strip(pdf_file.plumber_text) # ""
            secondary_usable == ~pdf_file.pypdf2_raises /\ strip(pdf_file.pypdf2_text) # ""
        IN  /\ ~ended.raised
            /\ ended.extractors[1] = "pdfplumber"
            /\ ("PyPDF2" \in Range(ended.extractors)) = ~primary_usable
            /\ ended.text = "" \/ strip(ended.text) # ""
            /\ primary_usable => ended.text = pdf_file.plumber_text
            /\ ~primary_usable /\ secondary_usable => ended.text = pdf_file.pypdf2_text
            /\ ~primary_usable /\ ~secondary_usable => ended.text = ""
            /\ ended.text = extract_pdf_text(pdf_file)

\* The primary extractor gave only white space and the secondary one raised:
\* the call has returned the empty string.
C22_Witness ==
    /\ extracted # <<>>
    /\ ~pdf_arg[1].plumber_raises
    /\ pdf_arg[1].plumber_text = WhitespaceText
    /\ pdf_arg[1].pypdf2_raises
    /\ extracted[1].extractors = <<"pdfplumber", "PyPDF2">>
    /\ extracted[1].text = ""

\* C23: once the task has saved the output spreadsheet into the session
\* directory, the file is still there when the task returns.
C23_OutputKept ==
    (Returned /\ excel_read) => session_dir.output = <<combined_df>>

\* The session directory id has been removed.
Removed(id) == upload_folder[id] # KeptFiles

\* A step removes only directories made more than 24 hours ago.
RemovesOnlyOld ==
    \A id \in DOMAIN upload_folder :
        (upload_folder'[id] # upload_folder[id]) =>
            /\ stat[id].isdir
            /\ now - stat[id].created > MaxAgeHours

\* C24: cleanup_old_files removes a session directory only if it was created
\* more than 24 hours before the cleanup run, so a younger one is never
\* removed; and an error on one session does not keep the cleanup from
\* the others: when it is done, every directory whose change time it could
\* read and found older than 24 hours is removed.
C24_CleanupOnlyOld ==
    /\ [](\A id \in DOMAIN upload_folder :
              /\ (Removed(id) => now - stat[id].created > MaxAgeHours)
              /\ (cleanup # <<>> /\ cleanup[1].pc = "done"
                      /\ stat[id].isdir /\ ~stat[id].getctime_raises
                      /\ now - stat[id].ctime > MaxAgeHours
                   => Removed(id)))
    /\ [][RemovesOnlyOld]_vars

\* The cleanup is done: reading the change time of one session raised and
\* another session, older than 24 hours, is removed.
C24_Witness ==
    /\ cleanup # <<>>
    /\ cleanup[1].pc = "done"
    /\ \E id \in DOMAIN upload_folder : stat[id].isdir /\ stat[id].getctime_raises
    /\ \E id \in DOMAIN upload_folder : Removed(id)

\* C25: the loop counts every document once: after each iteration the
\* processed and the skipped documents add up to the documents handled so
\* far, hence to all the input documents once the loop is over, and there
\* is one collected record for each processed document.
C25_Accounting ==
    /\ processed_files + Len(skipped_files) = i
    /\ Len(all_data) = processed_files
    /\ pc # "extract" => processed_files + Len(skipped_files) = Len(pdf_file_paths)

\* The loop is over a batch in which one document gave a record and
\* another was skipped.
C25_Witness ==
    /\ pc = "extract"
    /\ LoopDone
    /\ processed_files >= 1
    /\ Len(skipped_files) >= 1

\* What the task has returned is a mapping with a boolean success field,
\* and with an error message when success is false.
IsResult(r) ==
    /\ "success" \in DOMAIN r
    /\ r.success \in BOOLEAN
    /\ ~r.success => "error" \in DOMAIN r /\ r.error # ""

\* How far the run has come: the statements of the function in their order,
\* and within the loop the iterations done.
Position ==
    i + (Len(pdf_file_paths) + 1)
            * (CASE pc = "extract" -> 0
                 [] pc = "read_excel" -> 1
                 [] pc = "save" -> 2
                 [] pc = "result" -> 3
                 [] pc = "except" -> 4
                 [] OTHER -> 5)

\* The conditions under which the steps of the run are taken.
HasNextStep ==
    \/ pc = "extract" /\ i < Len(pdf_file_paths)
    \/ pc = "extract" /\ i = Len(pdf_file_paths) /\ all_data = <<>>
    \/ pc = "extract" /\ i = Len(pdf_file_paths) /\ all_data # <<>>
    \/ pc = "read_excel"
    \/ pc = "save"
    \/ pc = "result"
    \/ pc = "except"

\* C26: no exception leaves process_sds_files: every run ends by returning
\* a result mapping with a boolean success field, false with an error
\* message when the batch failed; the task is then in the state SUCCESS and
\* the status endpoint reports progress 100, also for a failed batch.  That
\* every run ends is: each step takes the run further, and a run that has
\* not returned has a next step.
C26_AlwaysReturns ==
    /\ [](/\ task_state # "FAILURE"
          /\ Returned =>
                 /\ IsResult(result[1])
                 /\ get_task_status.state = "SUCCESS"
                 /\ get_task_status.progress = 100
                 /\ get_task_status.result = result[1]
          /\ ~Returned => HasNextStep)
    /\ [][Position' > Position]_vars

\* The batch has failed in the handler, and the status endpoint shows the
\* task as SUCCESS with progress 100.
C26_Witness ==
    /\ Returned
    /\ exception # ""
    /\ ~result[1].success
    /\ get_task_status.state = "SUCCESS"
    /\ get_task_status.progress = 100

====
